---- MODULE Spec2Model ----
(***************************************************************************)
(* Chunking and hierarchical context compression pipeline of the wallet    *)
(* analyzer (backend/analyze.py, backend/server.py).                       *)
(*                                                                         *)
(* Texts are modelled by their structure.  A transaction is a record       *)
(* [key, ts]; a chronology part is a sequence of day sections              *)
(* [date, summary, importance]; a summary is a sequence of numbers.        *)
(***************************************************************************)
EXTENDS Integers, Sequences, FiniteSets, TLC

VARIABLES
    file,       \* data/<wallet>.json : the fetched (filtered) transactions
    disk,       \* reports/<wallet>_state.json : the persisted AnalysisState
    report,     \* reports/<wallet>.md : the written report (parts), or NoReport
    pc,         \* position of the running pipeline invocation
    mem,        \* locals of the running invocation
    hist,       \* observations about the runs (history, not program state)
    arg,        \* pure-function harness: the inputs drawn
    ret,        \* pure-function harness: the value returned
    call        \* pure-function harness: the function applied last

vars == <<file, disk, report, pc, mem, hist, arg, ret, call>>

pipeVars == <<file, disk, report, pc, mem, hist>>
funVars == <<arg, ret, call>>

----------------------------------------------------------------------------
(* Bounds *)

MaxLen == 4          \* longest transaction list drawn for the chunking functions
MaxTs == 5           \* largest timestamp drawn
TicksPerDay == 2     \* timestamps per UTC calendar day (86400 in the code)
MaxChunkLimit == 3   \* largest CHUNK_MAX_TRANSACTIONS drawn
MaxDate == 3         \* date headers drawn for the overlap merger: 1..MaxDate
MaxParts == 3        \* longest narrative store drawn for the overlap merger
MaxFile == 2         \* most transactions the wallet file holds in the pipeline
MaxKey == 2          \* transaction keys 1..MaxKey occur in the pipeline
MaxHistory == 7      \* most day summaries in the history given to the compressor
MaxText == 1         \* day summary texts drawn for the compressor: 1..MaxText
MaxDaily == 2        \* largest CONTEXT_DAILY_COUNT drawn
MaxGroup == 2        \* largest CONTEXT_TIER2_GROUP_SIZE drawn
MaxWeekly == 3       \* largest CONTEXT_WEEKLY_COUNT drawn
MaxSuper == 2        \* largest CONTEXT_TIER3_SUPER_SIZE drawn (from 2)
MaxLiveFile == 3     \* most transactions the wallet file holds under retries
MaxUsd == 2          \* largest USD amount a transaction field carries
MaxThreshold == 3    \* largest dust threshold drawn
MaxDays == 3         \* most day items given to the window selection
MaxWindow == 3       \* largest CONTEXT_WINDOW_TX_COUNT drawn
MaxFallback == 2     \* largest CONTEXT_TX_FALLBACK_PER_DAY drawn
MaxAnchors == 2      \* largest CONTEXT_IMPORTANCE_ANCHORS drawn
MaxDayTxs == 2       \* largest transaction count of a day in day_tx_counts
MaxFull == 2         \* largest FULL_CHRONOLOGY_COUNT drawn
MaxFilterLen == 2    \* longest transaction list drawn for the dust filter

----------------------------------------------------------------------------
(* Generic helpers *)

Range(s) == {s[i] : i \in 1..Len(s)}

RECURSIVE SumSeq(_)
SumSeq(s) == IF s = <<>> THEN 0 ELSE Head(s) + SumSeq(Tail(s))

RECURSIVE Concat(_)
Concat(ss) == IF ss = <<>> THEN <<>> ELSE Head(ss) \o Concat(Tail(ss))

Last(s) == s[Len(s)]

\* Sequences over S of length at most n
SeqUpTo(S, n) == UNION {[1..k -> S] : k \in 0..n}

----------------------------------------------------------------------------
(* Day grouper and batcher *)

\* ts_to_date: the UTC calendar day of a timestamp
ts_to_date(ts) == ts \div TicksPerDay

\* sorted(txs, key=timestamp): Python's sort is stable
RECURSIVE InsertByTs(_, _)
InsertByTs(sorted, tx) ==
    IF sorted = <<>> THEN <<tx>>
    ELSE IF Last(sorted).ts <= tx.ts THEN Append(sorted, tx)
    ELSE Append(InsertByTs(SubSeq(sorted, 1, Len(sorted) - 1), tx), Last(sorted))

RECURSIVE SortedByTs(_)
SortedByTs(txs) ==
    IF txs = <<>> THEN <<>>
    ELSE InsertByTs(SortedByTs(SubSeq(txs, 1, Len(txs) - 1)), Last(txs))

\* days.setdefault(day, []).append(tx) on an OrderedDict kept as a sequence
\* of [day, txs] entries in insertion order
SetDefaultAppend(days, day, tx) ==
    IF \E i \in 1..Len(days) : days[i].day = day
    THEN [i \in 1..Len(days) |->
            IF days[i].day = day
            THEN [day |-> day, txs |-> Append(days[i].txs, tx)]
            ELSE days[i]]
    ELSE Append(days, [day |-> day, txs |-> <<tx>>])

RECURSIVE BucketByDay(_, _)
BucketByDay(days, txs) ==
    IF txs = <<>> THEN days
    ELSE BucketByDay(SetDefaultAppend(days, ts_to_date(Head(txs).ts), Head(txs)),
                     Tail(txs))

\* Mutant of group_by_days: the transactions are bucketed in file order
group_by_days_unsorted(txs) == BucketByDay(<<>>, txs)

group_by_days(txs) == BucketByDay(<<>>, SortedByTs(txs))

\* Mutant of ChunkStep: the current chunk is closed when the limit would be
\* exceeded even if it is still empty
ChunkStepNoGuard(st, entry, max_txs) ==
    LET n == Len(entry.txs)
        s2 == IF st.count + n > max_txs
              THEN [chunks |-> Append(st.chunks, st.current), current |-> <<>>, count |-> 0]
              ELSE st
    IN [chunks |-> s2.chunks, current |-> Append(s2.current, entry), count |-> s2.count + n]

\* Mutant of ChunkStep: the current chunk is closed already when the next day
\* would fill it up to the limit
ChunkStepEager(st, entry, max_txs) ==
    LET n == Len(entry.txs)
        s2 == IF st.count + n >= max_txs /\ st.count > 0
              THEN [chunks |-> Append(st.chunks, st.current), current |-> <<>>, count |-> 0]
              ELSE st
    IN [chunks |-> s2.chunks, current |-> Append(s2.current, entry), count |-> s2.count + n]

\* One iteration of the loop of make_chunks; st = [chunks, current, count]
ChunkStep(st, entry, max_txs) ==
    LET n == Len(entry.txs)
        s1 == IF n > max_txs /\ st.count > 0
              THEN [chunks |-> Append(st.chunks, st.current), current |-> <<>>, count |-> 0]
              ELSE st
        s2 == IF s1.count + n > max_txs /\ s1.count > 0
              THEN [chunks |-> Append(s1.chunks, s1.current), current |-> <<>>, count |-> 0]
              ELSE s1
    IN [chunks |-> s2.chunks, current |-> Append(s2.current, entry), count |-> s2.count + n]

RECURSIVE ChunkLoop(_, _, _)
ChunkLoop(st, days, max_txs) ==
    IF days = <<>> THEN st
    ELSE ChunkLoop(ChunkStep(st, Head(days), max_txs), Tail(days), max_txs)

\* Mutant of ChunkFlush: the trailing chunk is forgotten
ChunkFlushDropLast(st) == st.chunks

ChunkFlush(st) ==
    IF st.current # <<>> THEN Append(st.chunks, st.current) ELSE st.chunks

make_chunks(day_groups, max_txs) ==
    ChunkFlush(ChunkLoop([chunks |-> <<>>, current |-> <<>>, count |-> 0],
                         day_groups, max_txs))

----------------------------------------------------------------------------
(* Chronology parts and the overlap merger *)

\* A part is markdown text: `body` stands for the text before the first
\* "### <date>" header, `secs` for the day sections in textual order.
EmptyText == [body |-> <<>>, secs |-> <<>>]

DaySection(date, summary, importance) ==
    [date |-> date, summary |-> summary, importance |-> importance]

\* The importance the system prompt asks the model to give (1..5); 0 stands
\* for a section without a well-formed importance line.
NoImportance == 0

\* re.findall(r'^### (date(?: — date)?)', text): the set of header strings
extract_dates_from_chronology(part) ==
    {part.secs[i].date : i \in 1..Len(part.secs)}

\* The dates of a set, ascending
RECURSIVE SortedDates(_)
SortedDates(S) ==
    IF S = {} THEN <<>>
    ELSE LET m == CHOOSE x \in S : \A y \in S : x <= y
         IN <<m>> \o SortedDates(S \ {m})

SummariesOf(part, date) ==
    Concat([i \in 1..Len(part.secs) |->
              IF part.secs[i].date = date THEN part.secs[i].summary ELSE <<>>])

ImportanceOf(part, date) ==
    LET I == {part.secs[i].importance : i \in {j \in 1..Len(part.secs) : part.secs[j].date = date}}
    IN IF I = {} THEN NoImportance ELSE CHOOSE x \in I : \A y \in I : x >= y

\* The answer of the merge call: one section per date header present in the
\* two sections given, in chronological order, the narratives combined.
merge_duplicate_dates_with_llm(old_section, new_section) ==
    LET dates == SortedDates(extract_dates_from_chronology(old_section)
                             \cup extract_dates_from_chronology(new_section))
    IN [body |-> old_section.body \o new_section.body,
        secs |-> [i \in 1..Len(dates) |->
                    DaySection(dates[i],
                               SummariesOf(old_section, dates[i])
                                   \o SummariesOf(new_section, dates[i]),
                               IF ImportanceOf(old_section, dates[i]) >= ImportanceOf(new_section, dates[i])
                               THEN ImportanceOf(old_section, dates[i])
                               ELSE ImportanceOf(new_section, dates[i]))]]

Overlaps(existing_part, new_part) ==
    extract_dates_from_chronology(new_part)
        \cap extract_dates_from_chronology(existing_part) # {}

\* The indexes of the existing parts for which merge_chronology_parts calls the LLM
MergeCalls(existing_parts, new_part) ==
    IF new_part = EmptyText THEN {}
    ELSE {i \in 1..Len(existing_parts) : Overlaps(existing_parts[i], new_part)}

\* Mutant of merge_chronology_parts: the new part is appended without looking
\* for overlapping dates
merge_append_only(existing_parts, new_part) ==
    IF new_part = EmptyText THEN existing_parts ELSE Append(existing_parts, new_part)

\* Mutant of merge_chronology_parts: after a merge only the merged parts
\* are kept
merge_keep_merged_only(existing_parts, new_part) ==
    IF MergeCalls(existing_parts, new_part) = {}
    THEN merge_append_only(existing_parts, new_part)
    ELSE [i \in 1..Cardinality(MergeCalls(existing_parts, new_part)) |->
            merge_duplicate_dates_with_llm(
                SelectSeq(existing_parts, LAMBDA part : Overlaps(part, new_part))[i],
                new_part)]

\* Mutant of merge_chronology_parts: the new part is appended after a merge too
merge_and_append(existing_parts, new_part) ==
    IF new_part = EmptyText THEN existing_parts
    ELSE Append([i \in 1..Len(existing_parts) |->
                    IF Overlaps(existing_parts[i], new_part)
                    THEN merge_duplicate_dates_with_llm(existing_parts[i], new_part)
                    ELSE existing_parts[i]],
                new_part)

\* merge_chronology_parts when none of its LLM calls raises
merge_chronology_parts(existing_parts, new_part) ==
    IF new_part = EmptyText THEN existing_parts
    ELSE IF extract_dates_from_chronology(new_part) = {}
    THEN Append(existing_parts, new_part)
    ELSE LET updated_parts ==
                 [i \in 1..Len(existing_parts) |->
                    IF Overlaps(existing_parts[i], new_part)
                    THEN merge_duplicate_dates_with_llm(existing_parts[i], new_part)
                    ELSE existing_parts[i]]
             merged == MergeCalls(existing_parts, new_part) # {}
         IN IF merged THEN updated_parts ELSE Append(updated_parts, new_part)

\* No date header occurs in two parts of the store
NoSharedDate(parts) ==
    \A i, j \in 1..Len(parts) :
        i # j => extract_dates_from_chronology(parts[i])
                    \cap extract_dates_from_chronology(parts[j]) = {}

----------------------------------------------------------------------------
(* Context compression *)

\* A context line "<date or range>: <text>"; a day summary line has lo = hi
Line(lo, hi, text) == [lo |-> lo, hi |-> hi, text |-> text]

LineFlat(l) == <<l.lo, l.hi>> \o l.text

\* Python slices s[-n:] and s[:-n] for n >= 0 (for n = 0 they are s and [])
PyLastN(s, n) ==
    IF n = 0 THEN s
    ELSE IF n >= Len(s) THEN s ELSE SubSeq(s, Len(s) - n + 1, Len(s))

PyDropLastN(s, n) ==
    IF n = 0 THEN <<>>
    ELSE IF n >= Len(s) THEN <<>> ELSE SubSeq(s, 1, Len(s) - n)

Min(a, b) == IF a <= b THEN a ELSE b
Max(a, b) == IF a >= b THEN a ELSE b

\* extract_day_metadata: the sections that carry a "day summary" line
extract_day_metadata(part) ==
    SelectSeq(part.secs, LAMBDA sec : sec.summary # <<>>)

\* extract_day_summaries / the f"{date}: {summary}" lines
SummaryLines(items) ==
    [i \in 1..Len(items) |-> Line(items[i].date, items[i].date, items[i].summary)]

\* _content_hash: the key is decided by the joined text of the lines
_content_hash(texts) == Concat([i \in 1..Len(texts) |-> LineFlat(texts[i])])

\* The two texts _compress_via_llm can return for an input: the model's
\* summary of it, or the input itself when the call raised
CompressedMark == 100
FallbackMark == 101

\* Mutant of _compress_via_llm: a failed call yields an empty text
_compress_via_llm_no_fallback(input_lines, llm_ok) ==
    IF llm_ok
    THEN <<CompressedMark>> \o Concat([i \in 1..Len(input_lines) |-> LineFlat(input_lines[i])])
    ELSE <<>>

_compress_via_llm(input_lines, llm_ok) ==
    <<IF llm_ok THEN CompressedMark ELSE FallbackMark>>
        \o Concat([i \in 1..Len(input_lines) |-> LineFlat(input_lines[i])])

\* Mutant of StoreCompressed: the new entry replaces the dict
StoreCompressedAlone(cache_key, compressed, cache) ==
    [text |-> compressed, cache |-> (cache_key :> compressed), calls |-> 1]

\* A dict lookup-or-compute; returns the text, the dict and the LLM calls made
StoreCompressed(cache_key, compressed, cache) ==
    [text |-> compressed, cache |-> (cache_key :> compressed) @@ cache, calls |-> 1]

\* Mutant of CachedCompress: a stored fallback text is compressed again
CachedCompressRetryFallback(lines, cache, llm_ok) ==
    IF _content_hash(lines) \in DOMAIN cache
          /\ cache[_content_hash(lines)][1] # FallbackMark
    THEN [text |-> cache[_content_hash(lines)], cache |-> cache, calls |-> 0]
    ELSE StoreCompressed(_content_hash(lines), _compress_via_llm(lines, llm_ok), cache)

CachedCompress(lines, cache, llm_ok) ==
    IF _content_hash(lines) \in DOMAIN cache
    THEN [text |-> cache[_content_hash(lines)], cache |-> cache, calls |-> 0]
    ELSE StoreCompressed(_content_hash(lines), _compress_via_llm(lines, llm_ok), cache)

\* Mutant of _compress_group: the result is not stored in the cache
_compress_group_no_store(summaries, cache, llm_ok) ==
    [text |-> _compress_via_llm(summaries, llm_ok), cache |-> cache, calls |-> 1]

_compress_group(summaries, cache, llm_ok) == CachedCompress(summaries, cache, llm_ok)

\* _get_date_range of a group of day summary lines
_get_date_range(summaries) ==
    [lo |-> summaries[1].lo, hi |-> summaries[Len(summaries)].lo]

\* The fixed groups of `remaining`, aligned from the start or from the end
RECURSIVE SplitFrom(_, _)
SplitFrom(s, size) ==
    IF s = <<>> THEN <<>>
    ELSE IF Len(s) <= size THEN <<s>>
    ELSE <<SubSeq(s, 1, size)>> \o SplitFrom(SubSeq(s, size + 1, Len(s)), size)

\* Mutant of BuildGroups: the groups are always aligned from the end
BuildGroupsFromEnd(remaining, size, align_from_end) ==
    IF Len(remaining) % size # 0
    THEN <<SubSeq(remaining, 1, Len(remaining) % size)>>
             \o SplitFrom(SubSeq(remaining, (Len(remaining) % size) + 1, Len(remaining)), size)
    ELSE SplitFrom(remaining, size)

\* Mutant of BuildGroups: the groups are always aligned from the start
BuildGroupsFromStart(remaining, size, align_from_end) ==
    SplitFrom(remaining, size)

BuildGroups(remaining, size, align_from_end) ==
    IF align_from_end /\ Len(remaining) % size # 0
    THEN <<SubSeq(remaining, 1, Len(remaining) % size)>>
             \o SplitFrom(SubSeq(remaining, (Len(remaining) % size) + 1, Len(remaining)), size)
    ELSE SplitFrom(remaining, size)

\* The compression state threaded through the tiers:
\* acc = [result, intermediate, groups, super_groups, calls]
CompressAcc(cache) ==
    [result |-> <<>>, intermediate |-> <<>>, groups |-> cache.groups,
     super_groups |-> cache.super_groups, calls |-> 0]

\* A full group compressed to c: its line goes to `intermediate` (Tier 3) or
\* to `result` (Tier 2)
AddGroupLine(acc, dr, c, to_intermediate) ==
    IF to_intermediate
    THEN [acc EXCEPT !.intermediate = Append(@, Line(dr.lo, dr.hi, c.text)),
                     !.groups = c.cache, !.calls = @ + c.calls]
    ELSE [acc EXCEPT !.result = Append(@, Line(dr.lo, dr.hi, c.text)),
                     !.groups = c.cache, !.calls = @ + c.calls]

\* Mutant of CompressOneGroup: an incomplete group is compressed too
CompressOneGroupAlways(acc, group, size, to_intermediate, llm_ok) ==
    AddGroupLine(acc, _get_date_range(group),
                 _compress_group(group, acc.groups, llm_ok), to_intermediate)

\* One group of Tier 3 step 1 or of Tier 2: a full group is compressed, the
\* lines of an incomplete group go to `result` as they are
CompressOneGroup(acc, group, size, to_intermediate, llm_ok) ==
    IF Len(group) = size
    THEN AddGroupLine(acc, _get_date_range(group),
                      _compress_group(group, acc.groups, llm_ok), to_intermediate)
    ELSE [acc EXCEPT !.result = @ \o group]

RECURSIVE CompressGroups(_, _, _, _, _)
CompressGroups(acc, groups, size, to_intermediate, llm_ok) ==
    IF groups = <<>> THEN acc
    ELSE CompressGroups(CompressOneGroup(acc, Head(groups), size, to_intermediate, llm_ok),
                        Tail(groups), size, to_intermediate, llm_ok)

AddSuperLine(acc, super_items, c) ==
    [acc EXCEPT !.result = Append(@, Line(super_items[1].lo,
                                          super_items[Len(super_items)].hi, c.text)),
                !.super_groups = c.cache, !.calls = @ + c.calls,
                !.intermediate = SubSeq(@, Len(super_items) + 1, Len(@))]

\* Tier 3, step 2: the complete super-groups are compressed a second time,
\* the compressed groups left over go to `result`
RECURSIVE CompressSupers(_, _, _)
CompressSupers(acc, super_size, llm_ok) ==
    IF Len(acc.intermediate) < super_size
    THEN [acc EXCEPT !.result = @ \o acc.intermediate, !.intermediate = <<>>]
    ELSE CompressSupers(
             AddSuperLine(acc, SubSeq(acc.intermediate, 1, super_size),
                          CachedCompress(SubSeq(acc.intermediate, 1, super_size),
                                         acc.super_groups, llm_ok)),
             super_size, llm_ok)

\* Mutant of CompressionResult: the recent summaries come first
CompressionResultRecentFirst(acc, tier1_summaries) ==
    [lines |-> tier1_summaries \o acc.result,
     cache |-> [groups |-> acc.groups, super_groups |-> acc.super_groups],
     calls |-> acc.calls]

CompressionResult(acc, tier1_summaries) ==
    [lines |-> acc.result \o tier1_summaries,
     cache |-> [groups |-> acc.groups, super_groups |-> acc.super_groups],
     calls |-> acc.calls]

\* Tier 3 (when there are more groups than tier2_group_count), then Tier 2
CompressTiers(groups, tier2_group_count, cache, cfg, llm_ok) ==
    IF Len(groups) <= tier2_group_count
    THEN CompressGroups(CompressAcc(cache), groups, cfg.group, FALSE, llm_ok)
    ELSE CompressGroups(
             CompressSupers(
                 CompressGroups(CompressAcc(cache),
                                PyDropLastN(groups, tier2_group_count),
                                cfg.group, TRUE, llm_ok),
                 cfg.super, llm_ok),
             PyLastN(groups, tier2_group_count), cfg.group, FALSE, llm_ok)

\* Mutant of CompressRemaining: the Tier 2 group count rounds up
CompressRemainingCeil(tier1_summaries, remaining, cache, align_from_end, cfg, llm_ok) ==
    IF remaining = <<>>
    THEN [lines |-> tier1_summaries, cache |-> cache, calls |-> 0]
    ELSE CompressionResult(
             CompressTiers(BuildGroups(remaining, cfg.group, align_from_end),
                           (cfg.weekly + cfg.group - 1) \div cfg.group, cache, cfg, llm_ok),
             tier1_summaries)

CompressRemaining(tier1_summaries, remaining, cache, align_from_end, cfg, llm_ok) ==
    IF remaining = <<>>
    THEN [lines |-> tier1_summaries, cache |-> cache, calls |-> 0]
    ELSE CompressionResult(
             CompressTiers(BuildGroups(remaining, cfg.group, align_from_end),
                           Max(1, cfg.weekly \div cfg.group), cache, cfg, llm_ok),
             tier1_summaries)

\* _apply_hierarchical_compression; cfg carries CONTEXT_DAILY_COUNT (daily),
\* CONTEXT_WEEKLY_COUNT (weekly), TIER2_GROUP_SIZE (group), TIER3_SUPER_SIZE
\* (super).  Returns [lines, cache, calls].
_apply_hierarchical_compression(all_summaries, cache, align_from_end, cfg, llm_ok) ==
    CompressRemaining(
        PyLastN(all_summaries, Min(cfg.daily, Len(all_summaries))),
        IF Min(cfg.daily, Len(all_summaries)) < Len(all_summaries)
        THEN PyDropLastN(all_summaries, Min(cfg.daily, Len(all_summaries)))
        ELSE <<>>,
        cache, align_from_end, cfg, llm_ok)

\* The summary lines of the parts that are not given in full
OldSummaries(old_parts) ==
    SummaryLines(Concat([i \in 1..Len(old_parts) |-> extract_day_metadata(old_parts[i])]))

ContextWith(comp, recent_parts) ==
    [context |-> [lines |-> comp.lines, recent |-> recent_parts],
     cache |-> comp.cache, calls |-> comp.calls]

ContextOf(all_summaries, recent_parts, compression_cache, cfg, llm_ok) ==
    IF all_summaries = <<>>
    THEN [context |-> [lines |-> <<>>, recent |-> recent_parts],
          cache |-> compression_cache, calls |-> 0]
    ELSE ContextWith(_apply_hierarchical_compression(all_summaries, compression_cache,
                                                     FALSE, cfg, llm_ok),
                     recent_parts)

\* build_context_for_llm (legacy mode: CONTEXT_OPTIMIZED_WINDOW_ENABLED false,
\* CONTEXT_COMPRESSION_ENABLED true, MAX_CONTEXT_SUMMARIES None); cfg.full is
\* FULL_CHRONOLOGY_COUNT.  Returns the context [lines, recent], the cache as
\* mutated in place and the number of compression LLM calls.
build_context_for_llm(chronology_parts, compression_cache, cfg, llm_ok) ==
    IF Len(chronology_parts) > cfg.full
    THEN ContextOf(OldSummaries(PyDropLastN(chronology_parts, cfg.full)),
                   PyLastN(chronology_parts, cfg.full), compression_cache, cfg, llm_ok)
    ELSE ContextOf(<<>>, chronology_parts, compression_cache, cfg, llm_ok)

----------------------------------------------------------------------------
(* Transactions, persisted state and the narrative call *)

\* The configuration the pipeline runs under (environment-style settings)
Config == [chunk_max |-> 1,    \* CHUNK_MAX_TRANSACTIONS
           full |-> 1,         \* FULL_CHRONOLOGY_COUNT
           daily |-> 1,        \* CONTEXT_DAILY_COUNT
           weekly |-> 2,       \* CONTEXT_WEEKLY_COUNT
           group |-> 1,        \* CONTEXT_TIER2_GROUP_SIZE
           super |-> 2]        \* CONTEXT_TIER3_SUPER_SIZE

DUST_THRESHOLD_USD == 1

get_tx_key(tx) == tx.key

\* A USD field of a transaction dict: the key is absent, its value is None,
\* or its value is a number
Absent == [state |-> "absent", v |-> 0]
None == [state |-> "none", v |-> 0]
Usd(n) == [state |-> "value", v |-> n]

\* tx.get(key, default)
DictGet(field, default) == IF field.state = "absent" THEN default ELSE field

\* `x or 0`: None and 0 give 0
OrZero(x) == IF x.state = "value" THEN x.v ELSE 0

\* float("inf"): above every amount and every threshold
Infinity == 2 * MaxUsd + MaxThreshold + 1

\* Mutant of get_tx_usd: an nft_transfer is valued by its amount_usd
get_tx_usd_nft_by_amount(tx) ==
    IF tx.tx_type = "swap"
    THEN Max(OrZero(DictGet(tx.token0_amount_usd, Usd(0))),
             OrZero(DictGet(tx.token1_amount_usd, Usd(0))))
    ELSE IF tx.tx_type = "lp"
    THEN OrZero(DictGet(tx.token0_amount_usd, Usd(0)))
            + OrZero(DictGet(tx.token1_amount_usd, Usd(0)))
    ELSE IF tx.tx_type = "transfer"
    THEN OrZero(DictGet(tx.amount_usd, DictGet(tx.token_amount_usd, Usd(0))))
    ELSE IF tx.tx_type \in {"lending", "wrap", "bridge", "nft_transfer"}
    THEN OrZero(DictGet(tx.amount_usd, Usd(0)))
    ELSE 0

get_tx_usd(tx) ==
    IF tx.tx_type = "swap"
    THEN Max(OrZero(DictGet(tx.token0_amount_usd, Usd(0))),
             OrZero(DictGet(tx.token1_amount_usd, Usd(0))))
    ELSE IF tx.tx_type = "lp"
    THEN OrZero(DictGet(tx.token0_amount_usd, Usd(0)))
            + OrZero(DictGet(tx.token1_amount_usd, Usd(0)))
    ELSE IF tx.tx_type \in {"lending", "wrap"}
    THEN OrZero(DictGet(tx.amount_usd, Usd(0)))
    ELSE IF tx.tx_type = "transfer"
    THEN OrZero(DictGet(tx.amount_usd, DictGet(tx.token_amount_usd, Usd(0))))
    ELSE IF tx.tx_type = "bridge"
    THEN OrZero(DictGet(tx.amount_usd, Usd(0)))
    ELSE IF tx.tx_type = "nft_transfer"
    THEN Infinity
    ELSE 0

\* The loop of filter_transactions: contract interactions and transactions
\* valued below the threshold are skipped, the others appended in order
filter_transactions(txs, threshold) ==
    SelectSeq(txs, LAMBDA tx : /\ tx.tx_type # "contract_interaction"
                               /\ ~(get_tx_usd(tx) < threshold))

KeysOf(txs) == {get_tx_key(txs[i]) : i \in 1..Len(txs)}

EmptyCache == [groups |-> <<>>, super_groups |-> <<>>]

AllFields == {"chunk_index", "chronology_parts", "processed_tx_keys",
              "pending_tx_keys", "compression_cache"}

\* The state file: `exists`, the keys the JSON object has, and their values
StateFile(fields, chunk_index, parts, processed, pending, cache) ==
    [exists |-> TRUE, fields |-> fields, chunk_index |-> chunk_index,
     chronology_parts |-> parts, processed_tx_keys |-> processed,
     pending_tx_keys |-> pending, compression_cache |-> cache]

NoStateFile ==
    [exists |-> FALSE, fields |-> {}, chunk_index |-> 0, chronology_parts |-> <<>>,
     processed_tx_keys |-> {}, pending_tx_keys |-> {}, compression_cache |-> EmptyCache]

\* load_state: the defaults for a missing file and for missing keys
load_state(f) ==
    IF ~f.exists
    THEN [chunk_index |-> 0, chronology_parts |-> <<>>, processed_tx_keys |-> {},
          pending_tx_keys |-> {}, compression_cache |-> EmptyCache]
    ELSE [chunk_index |-> f.chunk_index,
          chronology_parts |-> f.chronology_parts,
          processed_tx_keys |-> IF "processed_tx_keys" \in f.fields
                                THEN f.processed_tx_keys ELSE {},
          pending_tx_keys |-> IF "pending_tx_keys" \in f.fields
                              THEN f.pending_tx_keys ELSE {},
          compression_cache |-> IF "compression_cache" \in f.fields
                                THEN f.compression_cache ELSE EmptyCache]

\* What the narrative call is shown of the context: per line its dates and the
\* kind of its text, then the dates of the parts given in full
LineSig(l) == <<l.lo, l.hi, IF l.text = <<>> THEN 0 ELSE l.text[1]>>

RecentMark == 200

ContextDigest(context) ==
    Concat([i \in 1..Len(context.lines) |-> LineSig(context.lines[i])])
        \o <<RecentMark>>
        \o Concat([i \in 1..Len(context.recent) |->
                     [j \in 1..Len(context.recent[i].secs) |-> context.recent[i].secs[j].date]])

\* A deterministic model following SYSTEM_PROMPT: one section per day of the
\* chunk, its summary decided by the day's transactions and the context
NarrativeLLM(context, chunk) ==
    [body |-> <<>>,
     secs |-> [d \in 1..Len(chunk) |->
                 DaySection(chunk[d].day,
                            <<chunk[d].day, Len(chunk[d].txs)>> \o ContextDigest(context),
                            3)]]

\* What call_llm returns: the narrative, under a "## Хронология" header or not
LLMResponse(header, text) == [header |-> header, text |-> text]

\* parse_llm_response removes the optional header and strips the text
parse_llm_response(response) == response.text

----------------------------------------------------------------------------
(* The orchestrator: run_analysis_pipeline (server) and analyze_wallet (CLI) *)

Entries == {"run_analysis_pipeline", "analyze_wallet"}

\* The batch of a run: the pending transactions when resuming, else the
\* transactions not processed yet
Resuming(st) == st.pending_tx_keys # {} /\ st.chunk_index > 0

\* Mutant of SelectBatch: a resumed run takes every unprocessed transaction
SelectBatchAllNew(st, txs) ==
    SelectSeq(txs, LAMBDA tx : get_tx_key(tx) \notin st.processed_tx_keys)

\* Mutant of SelectBatch: a fresh run takes every transaction again
SelectBatchIgnoreProcessed(st, txs) ==
    IF Resuming(st)
    THEN SelectSeq(txs, LAMBDA tx : get_tx_key(tx) \in st.pending_tx_keys)
    ELSE txs

\* Mutant of SelectBatch: every run takes every transaction of the file
SelectBatchWholeFile(st, txs) == txs

\* Mutant of SelectBatch: a fresh run takes one transaction per key
SelectBatchOnePerKey(st, txs) ==
    LET marked == [i \in 1..Len(txs) |->
                      [tx |-> txs[i],
                       first |-> \A j \in 1..(i - 1) : get_tx_key(txs[j]) # get_tx_key(txs[i])]]
        kept == SelectSeq(marked, LAMBDA e : e.first /\ get_tx_key(e.tx) \notin st.processed_tx_keys)
    IN  [j \in 1..Len(kept) |-> kept[j].tx]

SelectBatch(st, txs) ==
    IF Resuming(st)
    THEN SelectSeq(txs, LAMBDA tx : get_tx_key(tx) \in st.pending_tx_keys)
    ELSE SelectSeq(txs, LAMBDA tx : get_tx_key(tx) \notin st.processed_tx_keys)

StartChunk(st) == IF Resuming(st) THEN st.chunk_index ELSE 0

\* The migration test of a run without new transactions
IsMigration(st) == st.processed_tx_keys = {} /\ st.chronology_parts # <<>>

\* How a parsed narrative enters the store
StoreNarrative(entry, chronology_parts, chronology) ==
    IF chronology = EmptyText THEN chronology_parts
    ELSE IF entry = "run_analysis_pipeline"
    THEN merge_chronology_parts(chronology_parts, chronology)
    ELSE Append(chronology_parts, chronology)

\* Mutant of CheckpointIndex: the chunk index is persisted one chunk late
CheckpointIndexLate(i) == i

\* The chunk_index saved after chunk i
CheckpointIndex(i) == i + 1

\* The keys save_state writes at the migration of each entry point
MigrationFields(entry) ==
    IF entry = "run_analysis_pipeline" THEN AllFields
    ELSE AllFields \ {"compression_cache"}

\* The whole loop of one run without interruption or failure
RECURSIVE RunChunks(_, _, _, _, _)
RunOneChunk(entry, parts, chunks, i, b) ==
    RunChunks(entry,
              StoreNarrative(entry, parts,
                             parse_llm_response(
                                 LLMResponse(FALSE, NarrativeLLM(b.context, chunks[i + 1])))),
              b.cache, chunks, i + 1)

RunChunks(entry, parts, cache, chunks, i) ==
    IF i >= Len(chunks) THEN parts
    ELSE RunOneChunk(entry, parts, chunks, i,
                     build_context_for_llm(parts, cache, Config, TRUE))

RunBatch(entry, st, new_txs) ==
    [parts |-> RunChunks(entry, st.chronology_parts, st.compression_cache,
                         make_chunks(group_by_days(new_txs), Config.chunk_max),
                         StartChunk(st)),
     processed |-> st.processed_tx_keys \cup KeysOf(new_txs),
     batch |-> KeysOf(new_txs)]

UninterruptedRun(entry, st, txs) == RunBatch(entry, st, SelectBatch(st, txs))

NoMem == [entry |-> "none", new_txs |-> <<>>, chronology_parts |-> <<>>,
          processed_keys |-> {}, batch_keys |-> {}, chunks |-> <<>>, i |-> 0,
          compression_cache |-> EmptyCache, chronology |-> EmptyText]

NoReport == [written |-> FALSE, parts |-> <<>>]

NoHist == [result |-> "none", calls |-> <<>>, resumed |-> FALSE,
           loaded |-> load_state(NoStateFile),
           afterCommit |-> FALSE, legacy |-> FALSE,
           fail |-> [at |-> 0, batch |-> {}, parts |-> <<>>, processed |-> {}],
           oracle |-> [parts |-> <<>>, processed |-> {}, batch |-> {}],
           oracleEntry |-> "none", hasOracle |-> FALSE, clean |-> FALSE,
           inBatch |-> FALSE, completed |-> 0, returned |-> <<>>, inFlight |-> FALSE,
           total |-> 0, indexAtCommit |-> 0, due |-> {}]

\* The expected result is dropped once the run is no longer comparable with
\* one uninterrupted run under a deterministic LLM
Unclean(h) ==
    [h EXCEPT !.clean = FALSE, !.hasOracle = FALSE, !.oracleEntry = "none",
              !.oracle = NoHist.oracle]

\* What a starting run records
Started(entry, st) ==
    [hist EXCEPT !.result = "running", !.calls = <<>>, !.loaded = st,
                 !.resumed = Resuming(st),
                 !.afterCommit = (hist.result = "committed"),
                 !.legacy = (st.processed_tx_keys = {} /\ st.pending_tx_keys = {}
                             /\ st.chronology_parts # <<>>
                             /\ filter_transactions(file, DUST_THRESHOLD_USD) # <<>>),
                 !.returned = <<>>, !.inFlight = FALSE, !.inBatch = FALSE]

\* The transactions a fetch can add: key k is a transfer of day k - 1
TxOfKey(k, usd) ==
    [key |-> k, ts |-> (k - 1) * TicksPerDay, tx_type |-> "transfer",
     amount_usd |-> Usd(usd), token_amount_usd |-> Absent,
     token0_amount_usd |-> Absent, token1_amount_usd |-> Absent]

\* background_refresh: the new transaction joins the file, which is kept
\* sorted by timestamp, newest first (the sort is stable)
RECURSIVE InsertDesc(_, _)
InsertDesc(txs, tx) ==
    IF txs = <<>> THEN <<tx>>
    ELSE IF Head(txs).ts >= tx.ts THEN <<Head(txs)>> \o InsertDesc(Tail(txs), tx)
    ELSE <<tx>> \o txs

\* The USD values a fetched transaction can carry: the oldest transaction can
\* be dust (below DUST_THRESHOLD_USD), the others are above the threshold
UsdOf(k) == IF k = 1 THEN {0, 2} ELSE {2}

FetchTx ==
    /\ pc = "idle"
    /\ Len(file) < MaxFile
    /\ \E k \in (1..MaxKey) \ KeysOf(file) : \E usd \in UsdOf(k) :
          file' = InsertDesc(file, TxOfKey(k, usd))
    /\ hist' = NoHist
    /\ UNCHANGED <<disk, report, pc, mem, funVars>>

\* `if not raw_txs: return`
RunEmptyFile ==
    /\ pc = "idle"
    /\ file = <<>>
    /\ \E entry \in Entries :
          hist' = [Started(entry, load_state(disk)) EXCEPT !.result = "empty_file"]
    /\ UNCHANGED <<file, disk, report, pc, mem, funVars>>

\* Nothing new and no migration: the run returns
RunNoop ==
    /\ pc = "idle"
    /\ file # <<>>
    /\ LET st == load_state(disk)
           txs == filter_transactions(file, DUST_THRESHOLD_USD)
       IN /\ ~Resuming(st)
          /\ SelectBatch(st, txs) = <<>>
          /\ ~IsMigration(st)
          /\ \E entry \in Entries :
                hist' = [Started(entry, st) EXCEPT !.result = "noop"]
    /\ UNCHANGED <<file, disk, report, pc, mem, funVars>>

\* Nothing new and a state from before key tracking: the keys are backfilled
RunMigrate ==
    /\ pc = "idle"
    /\ file # <<>>
    /\ LET st == load_state(disk)
           txs == filter_transactions(file, DUST_THRESHOLD_USD)
       IN /\ ~Resuming(st)
          /\ SelectBatch(st, txs) = <<>>
          /\ IsMigration(st)
          /\ \E entry \in Entries :
                /\ disk' = StateFile(MigrationFields(entry), 0, st.chronology_parts,
                                     KeysOf(txs), {}, st.compression_cache)
                /\ hist' = [Started(entry, st) EXCEPT !.result = "migrated"]
    /\ UNCHANGED <<file, report, pc, mem, funVars>>

\* A batch is selected and chunked; the loop is entered at start_chunk
BeginMem(entry, st, new_txs, chunks) ==
    mem' = [entry |-> entry, new_txs |-> new_txs,
            chronology_parts |-> st.chronology_parts,
            processed_keys |-> st.processed_tx_keys,
            batch_keys |-> KeysOf(new_txs),
            chunks |-> chunks, i |-> StartChunk(st),
            compression_cache |-> st.compression_cache,
            chronology |-> EmptyText]

Begin(entry, st, txs, new_txs, chunks) ==
    /\ BeginMem(entry, st, new_txs, chunks)
    /\ hist' = IF ~Resuming(st)
               THEN [Started(entry, st) EXCEPT
                       !.inBatch = TRUE, !.completed = 0, !.total = Len(chunks),
                       !.hasOracle = TRUE, !.clean = TRUE, !.oracleEntry = entry,
                       !.oracle = UninterruptedRun(entry, st, txs)]
               ELSE IF hist.clean /\ hist.oracleEntry = entry
               THEN [Started(entry, st) EXCEPT
                       !.inBatch = TRUE, !.completed = StartChunk(st),
                       !.total = Len(chunks)]
               ELSE [Unclean(Started(entry, st)) EXCEPT
                       !.inBatch = TRUE, !.completed = StartChunk(st),
                       !.total = Len(chunks)]

BeginBatch(entry, st, txs, new_txs) ==
    /\ Resuming(st) \/ new_txs # <<>>
    /\ Begin(entry, st, txs, new_txs,
             make_chunks(group_by_days(new_txs), Config.chunk_max))

BeginWith(entry, st, txs) == BeginBatch(entry, st, txs, SelectBatch(st, txs))

RunBegin ==
    /\ pc = "idle"
    /\ file # <<>>
    /\ \E entry \in Entries :
          BeginWith(entry, load_state(disk), filter_transactions(file, DUST_THRESHOLD_USD))
    /\ pc' = "loop"
    /\ UNCHANGED <<file, disk, report, funVars>>

\* The context is built (the cache is mutated in place) and the narrative
\* call returns a narrative or an empty text
Returned(b, response, deterministic) ==
    /\ mem' = [mem EXCEPT !.compression_cache = b.cache,
                          !.chronology = parse_llm_response(response)]
    /\ hist' = [(IF deterministic THEN hist ELSE Unclean(hist)) EXCEPT
                  !.calls = Append(@, mem.i),
                  !.completed = mem.i + 1,
                  !.returned = Append(@, extract_dates_from_chronology(
                                            parse_llm_response(response))),
                  !.inFlight = TRUE]

Answered(b, answer, header, llm_ok) ==
    Returned(b,
             LLMResponse(header,
                         IF answer = "narrative"
                         THEN NarrativeLLM(b.context, mem.chunks[mem.i + 1])
                         ELSE EmptyText),
             answer = "narrative" /\ (llm_ok \/ b.calls = 0))

ChunkCallReturns ==
    /\ pc = "loop"
    /\ mem.i < Len(mem.chunks)
    /\ \E llm_ok \in BOOLEAN, header \in BOOLEAN, answer \in {"narrative", "empty"} :
          Answered(build_context_for_llm(mem.chronology_parts, mem.compression_cache,
                                         Config, llm_ok),
                   answer, header, llm_ok)
    /\ pc' = "parsed"
    /\ UNCHANGED <<file, disk, report, funVars>>

\* save_report: the report file holds the stored parts
save_report(chronology_parts) == [written |-> TRUE, parts |-> chronology_parts]

\* Mutant of ReportOnFailure: the failing run writes the report of its parts
ReportOnFailureWritten(old_report, chronology_parts) == save_report(chronology_parts)

\* The report file after a run that stops on a failed LLM call: the `except`
\* branch of analyze_wallet saves the state and returns, the exception of
\* run_analysis_pipeline leaves the function; save_report is not reached
ReportOnFailure(old_report, chronology_parts) == old_report

\* The narrative call raises.  analyze_wallet catches it, saves the state of
\* before the chunk and returns; run_analysis_pipeline lets it propagate.
SaveOnFailure(b) ==
    disk' = IF mem.entry = "analyze_wallet"
            THEN StateFile(AllFields, mem.i, mem.chronology_parts,
                           mem.processed_keys, mem.batch_keys, b.cache)
            ELSE disk

ChunkCallRaises ==
    /\ pc = "loop"
    /\ mem.i < Len(mem.chunks)
    /\ \E llm_ok \in BOOLEAN :
          SaveOnFailure(build_context_for_llm(mem.chronology_parts, mem.compression_cache,
                                              Config, llm_ok))
    /\ hist' = [Unclean(hist) EXCEPT
                  !.result = "failed",
                  !.calls = Append(@, mem.i),
                  !.fail = [at |-> mem.i, batch |-> mem.batch_keys,
                            parts |-> mem.chronology_parts,
                            processed |-> mem.processed_keys]]
    /\ report' = ReportOnFailure(report, mem.chronology_parts)
    /\ pc' = "idle"
    /\ mem' = NoMem
    /\ UNCHANGED <<file, funVars>>

\* The narrative enters the store and the state is saved after the chunk
Stored(parts) ==
    /\ mem' = [mem EXCEPT !.chronology_parts = parts, !.i = @ + 1,
                          !.chronology = EmptyText]
    /\ disk' = StateFile(AllFields, CheckpointIndex(mem.i), parts,
                         mem.processed_keys, mem.batch_keys, mem.compression_cache)

ChunkStore ==
    /\ pc = "parsed"
    /\ Stored(StoreNarrative(mem.entry, mem.chronology_parts, mem.chronology))
    /\ hist' = [hist EXCEPT !.inFlight = FALSE]
    /\ pc' = "loop"
    /\ UNCHANGED <<file, report, funVars>>

\* A merge call of merge_chronology_parts raises in run_analysis_pipeline
ChunkStoreRaises ==
    /\ pc = "parsed"
    /\ mem.entry = "run_analysis_pipeline"
    /\ MergeCalls(mem.chronology_parts, mem.chronology) # {}
    /\ hist' = [Unclean(hist) EXCEPT !.result = "merge_failed"]
    /\ report' = ReportOnFailure(report, mem.chronology_parts)
    /\ pc' = "idle"
    /\ mem' = NoMem
    /\ UNCHANGED <<file, disk, funVars>>

\* Mutant of CommittedKeys: the commit forgets the batch
CommittedKeysWithoutBatch(processed_keys, batch_keys) == processed_keys

\* Mutant of CommittedKeys: the commit keeps the batch keys only
CommittedKeysBatchOnly(processed_keys, batch_keys) == batch_keys

\* processed_keys.update(batch_keys)
CommittedKeys(processed_keys, batch_keys) == processed_keys \cup batch_keys

\* Batch complete: the pending keys move to the processed keys
Commit ==
    /\ pc = "loop"
    /\ mem.i >= Len(mem.chunks)
    /\ mem' = [mem EXCEPT !.processed_keys = CommittedKeys(@, mem.batch_keys)]
    /\ disk' = StateFile(AllFields, 0, mem.chronology_parts,
                         CommittedKeys(mem.processed_keys, mem.batch_keys), {},
                         mem.compression_cache)
    /\ hist' = [hist EXCEPT !.inBatch = FALSE, !.indexAtCommit = disk.chunk_index]
    /\ pc' = "committed"
    /\ UNCHANGED <<file, report, funVars>>

\* save_report, then the run returns
WriteReport ==
    /\ pc = "committed"
    /\ report' = save_report(mem.chronology_parts)
    /\ hist' = [hist EXCEPT !.result = "committed"]
    /\ pc' = "idle"
    /\ mem' = NoMem
    /\ UNCHANGED <<file, disk, funVars>>

\* The process is killed: the locals are lost, the files stay
Kill ==
    /\ pc \in {"loop", "parsed", "committed"}
    /\ hist' = [hist EXCEPT !.result = "killed"]
    /\ pc' = "idle"
    /\ mem' = NoMem
    /\ UNCHANGED <<file, disk, report, funVars>>

\* A state file written before transaction keys were tracked
LegacyStateFile ==
    StateFile({"chunk_index", "chronology_parts"}, 2,
              <<[body |-> <<>>,
                 secs |-> <<DaySection(0, <<0, 1, RecentMark>>, 3),
                            DaySection(1, <<1, 1, RecentMark>>, 3)>>],
                [body |-> <<>>,
                 secs |-> <<DaySection(2, <<2, 1, RecentMark, 0, 1>>, 3)>>]>>,
              {}, {}, EmptyCache)

Init ==
    /\ file = <<>>
    /\ disk \in {NoStateFile, LegacyStateFile}
    /\ report = NoReport
    /\ pc = "idle"
    /\ mem = NoMem
    /\ hist = NoHist
    /\ arg = <<>> /\ ret = <<>> /\ call = "none"

Next ==
    \/ FetchTx
    \/ RunEmptyFile
    \/ RunNoop
    \/ RunMigrate
    \/ RunBegin
    \/ ChunkCallReturns
    \/ ChunkCallRaises
    \/ ChunkStore
    \/ ChunkStoreRaises
    \/ Commit
    \/ WriteReport
    \/ Kill

Spec == Init /\ [][Next]_vars

----------------------------------------------------------------------------
(* Properties of the orchestrator *)

\* The persisted state as a run loads it
Persisted == load_state(disk)

FilteredFile == filter_transactions(file, DUST_THRESHOLD_USD)

\* The dates under a header somewhere in a narrative store
DatesOfStore(parts) ==
    UNION {extract_dates_from_chronology(parts[i]) : i \in 1..Len(parts)}

\* The batch of a run has been committed and the last invocation returned
BatchCommitted ==
    /\ pc = "idle"
    /\ hist.result \in {"committed", "noop"}
    /\ hist.hasOracle /\ hist.clean
    /\ Persisted.pending_tx_keys = {}
    /\ Persisted.chunk_index = 0
    /\ hist.oracle.batch \subseteq Persisted.processed_tx_keys

\* C1: with a deterministic LLM and an unchanged transaction set, a batch that
\* is run with kills after persisted checkpoints and re-invoked until the
\* invocation returns with the batch committed ends with the same
\* chronology parts, processed keys and report as one uninterrupted run.
C1_IdempotentResume ==
    BatchCommitted =>
        /\ Persisted.chronology_parts = hist.oracle.parts
        /\ Persisted.processed_tx_keys = hist.oracle.processed
        /\ report.written
        /\ report.parts = hist.oracle.parts

\* The keys a resumed run is expected to take: the pending keys
PendingTxs(st) ==
    SelectSeq(FilteredFile, LAMBDA tx : get_tx_key(tx) \in st.pending_tx_keys)

\* C2: a run that loads non-empty pending keys and a chunk index > 0 takes as
\* its batch exactly the filtered transactions with a pending key, makes its
\* first narrative call for the loaded chunk index and calls no earlier chunk.
C2_ResumeReselects ==
    hist.resumed =>
        /\ pc # "idle" => mem.new_txs = PendingTxs(hist.loaded)
        /\ pc # "idle" => mem.batch_keys = KeysOf(PendingTxs(hist.loaded))
        /\ \A j \in 1..Len(hist.calls) : hist.calls[j] >= hist.loaded.chunk_index
        /\ hist.calls # <<>> => hist.calls[1] = hist.loaded.chunk_index

\* C2 witness: a resumed run has made its first call, for a chunk after the
\* first one
C2_Witness ==
    /\ hist.resumed
    /\ pc = "parsed"
    /\ hist.loaded.chunk_index >= 1
    /\ hist.calls = <<hist.loaded.chunk_index>>

\* C3: when the narrative call of chunk i fails the run stops, and the
\* persisted state has chunk index i, the batch keys as pending keys, and the
\* chronology parts and processed keys of before chunk i.
C3_FailurePersists ==
    (pc = "idle" /\ hist.result = "failed") =>
        /\ Persisted.chunk_index = hist.fail.at
        /\ Persisted.pending_tx_keys = hist.fail.batch
        /\ Persisted.chronology_parts = hist.fail.parts
        /\ Persisted.processed_tx_keys = hist.fail.processed

\* The keys the batch of the current run holds, from the state it loaded
ExpectedBatchKeys(st) ==
    IF st.pending_tx_keys # {} /\ st.chunk_index > 0
    THEN st.pending_tx_keys \cap KeysOf(FilteredFile)
    ELSE KeysOf(FilteredFile) \ st.processed_tx_keys

\* C4: after the last chunk the persisted processed keys are the old ones
\* united with the batch keys, the pending keys are empty and the chunk index
\* is 0; the report is written from the final chronology parts; the commit
\* comes only once every chunk of the batch has a persisted checkpoint.
C4_Commit ==
    (pc = "committed" \/ (pc = "idle" /\ hist.result = "committed")) =>
        /\ Persisted.processed_tx_keys =
              hist.loaded.processed_tx_keys \cup ExpectedBatchKeys(hist.loaded)
        /\ Persisted.pending_tx_keys = {}
        /\ Persisted.chunk_index = 0
        /\ hist.indexAtCommit = hist.total
        /\ pc = "idle" => report.written /\ report.parts = Persisted.chronology_parts

\* C4 witness: a second batch has committed on top of processed keys, and the
\* report is written
C4_Witness ==
    /\ pc = "idle"
    /\ hist.result = "committed"
    /\ hist.loaded.processed_tx_keys # {}
    /\ ExpectedBatchKeys(hist.loaded) # {}
    /\ report.written

\* What a run that finds nothing to do leaves behind
NoopRun ==
    /\ pc = "idle"
    /\ hist.result = "noop"
    /\ hist.calls = <<>>
    /\ Persisted.chronology_parts = hist.loaded.chronology_parts
    /\ Persisted.processed_tx_keys = hist.loaded.processed_tx_keys
    /\ Persisted.pending_tx_keys = hist.loaded.pending_tx_keys
    /\ Persisted.compression_cache = hist.loaded.compression_cache

\* C5 as stated: a run started after a run has committed, on the unchanged
\* transaction set, makes no LLM call and leaves the persisted chronology
\* parts, processed keys, pending keys and compression cache as they were.
\* It fails after the commit of a resumed batch, which leaves out the
\* transactions that arrived during the interruption.
C5_NoopRerun == hist.afterCommit => NoopRun

\* C5 amended: a run started after a run has committed, on the unchanged
\* transaction set, makes no LLM call and leaves the persisted chronology
\* parts, processed keys, pending keys and compression cache as they were,
\* provided the key of every filtered transaction is among the committed
\* processed keys.
C5_NoopRerunAllProcessed ==
    (hist.afterCommit /\ KeysOf(FilteredFile) \subseteq hist.loaded.processed_tx_keys)
        => NoopRun

\* C5 witness: the run after a commit has returned, with narrative in store
C5_Witness ==
    /\ hist.afterCommit
    /\ hist.result = "noop"
    /\ KeysOf(FilteredFile) # {}
    /\ KeysOf(FilteredFile) \subseteq hist.loaded.processed_tx_keys
    /\ Persisted.chronology_parts # <<>>

\* C6: a run that loads a legacy state (no processed keys, chronology parts
\* present) for a wallet with filtered transactions calls no LLM, and returns
\* with the processed keys backfilled to the keys of all current transactions
\* and the chronology parts unchanged.
C6_LegacyBackfill ==
    hist.legacy =>
        /\ hist.calls = <<>>
        /\ (pc = "idle" /\ hist.result # "killed") =>
              /\ hist.result = "migrated"
              /\ Persisted.processed_tx_keys = KeysOf(FilteredFile)
              /\ Persisted.chronology_parts = hist.loaded.chronology_parts

\* The chunks whose narrative call returned, the one in flight left out
Checkpointed ==
    1..(Len(hist.returned) - (IF hist.inFlight THEN 1 ELSE 0))

----------------------------------------------------------------------------
(* Measures used by the properties *)

ChunkTxCount(chunk) == SumSeq([i \in 1..Len(chunk) |-> Len(chunk[i].txs)])

FlattenDays(days) == Concat([i \in 1..Len(days) |-> days[i].txs])

Occurrences(s, x) == Cardinality({i \in 1..Len(s) : s[i] = x})

SameMultiset(s, t) ==
    /\ Len(s) = Len(t)
    /\ \A x \in Range(s) \cup Range(t) : Occurrences(s, x) = Occurrences(t, x)

----------------------------------------------------------------------------
(* Specification of the chunking functions: the inputs are drawn, then     *)
(* group_by_days and make_chunks are applied in turn.                      *)

Idle == /\ file = <<>> /\ disk = "none" /\ report = "none"
        /\ pc = "off" /\ mem = "none" /\ hist = "none"

\* The i-th transaction of the drawn list carries i as its key, so that equal
\* timestamps still belong to distinguishable transactions.
TxList(tss) == [i \in 1..Len(tss) |-> [key |-> i, ts |-> tss[i]]]

InitChunk ==
    /\ Idle
    /\ \E tss \in SeqUpTo(0..MaxTs, MaxLen), m \in 1..MaxChunkLimit :
          arg = [txs |-> TxList(tss), max_txs |-> m]
    /\ ret = <<>>
    /\ call = "none"

CallGroupByDays ==
    /\ call = "none"
    /\ ret' = group_by_days(arg.txs)
    /\ call' = "group_by_days"
    /\ UNCHANGED <<arg, pipeVars>>

CallMakeChunks ==
    /\ call = "group_by_days"
    /\ ret' = make_chunks(ret, arg.max_txs)
    /\ call' = "make_chunks"
    /\ UNCHANGED <<arg, pipeVars>>

NextChunk == CallGroupByDays \/ CallMakeChunks

SpecChunk == InitChunk /\ [][NextChunk]_vars

----------------------------------------------------------------------------
(* Properties of the chunking functions *)

DaysAscending(days) == \A i \in 1..Len(days) - 1 : days[i].day < days[i + 1].day

TsNonDecreasing(txs) == \A i \in 1..Len(txs) - 1 : txs[i].ts <= txs[i + 1].ts

\* C8: the chunks of make_chunks(group_by_days(txs)), concatenated in chunk
\* order, are the day-group map itself: every day once, days ascending, each
\* day with its own transactions; flattened they are the input transactions
\* as a multiset, in chronological order.
C8_BatchCoverage ==
    /\ call = "group_by_days" =>
          /\ DaysAscending(ret)
          /\ \A i \in 1..Len(ret) : \A j \in 1..Len(ret[i].txs) :
                ts_to_date(ret[i].txs[j].ts) = ret[i].day
          /\ SameMultiset(FlattenDays(ret), arg.txs)
          /\ TsNonDecreasing(FlattenDays(ret))
    /\ call = "make_chunks" =>
          /\ Concat(ret) = group_by_days(arg.txs)
          /\ DaysAscending(Concat(ret))
          /\ SameMultiset(FlattenDays(Concat(ret)), arg.txs)
          /\ TsNonDecreasing(FlattenDays(Concat(ret)))

\* C8 witness: several chunks came back, one of them holding two days
C8_Witness ==
    /\ call = "make_chunks"
    /\ Len(ret) >= 2
    /\ \E c \in 1..Len(ret) : Len(ret[c]) >= 2

\* C9: no chunk is empty, and a chunk with more than max_txs transactions is
\* one single day; every other chunk has at most max_txs transactions.
C9_ChunkSizes ==
    call = "make_chunks" =>
        \A c \in 1..Len(ret) :
            /\ Len(ret[c]) >= 1
            /\ ChunkTxCount(ret[c]) >= 1
            /\ ChunkTxCount(ret[c]) > arg.max_txs => Len(ret[c]) = 1

\* C9 witness: an oversized single-day chunk between two ordinary chunks
C9_Witness ==
    /\ call = "make_chunks"
    /\ Len(ret) >= 3
    /\ \E c \in 2..Len(ret) - 1 : ChunkTxCount(ret[c]) > arg.max_txs

----------------------------------------------------------------------------
(* Specification of the overlap merger: a store without a date shared by   *)
(* two parts and a new part are drawn, then merge_chronology_parts runs.   *)

\* A part with one section per date of D; without dates it is plain text
PartOf(D, tag) ==
    LET dates == SortedDates(D)
    IN [body |-> IF D = {} THEN <<tag>> ELSE <<>>,
        secs |-> [i \in 1..Len(dates) |-> DaySection(dates[i], <<tag, dates[i]>>, 3)]]

InitMerge ==
    /\ Idle
    /\ \E ds \in SeqUpTo(SUBSET (1..MaxDate), MaxParts) :
          /\ \A i, j \in 1..Len(ds) : i # j => ds[i] \cap ds[j] = {}
          /\ \E new \in {EmptyText} \cup {PartOf(D, 0) : D \in SUBSET (1..MaxDate)} :
                arg = [existing_parts |-> [i \in 1..Len(ds) |-> PartOf(ds[i], i)],
                       new_part |-> new]
    /\ ret = <<>>
    /\ call = "none"

CallMergeReturns ==
    /\ call = "none"
    /\ ret' = merge_chronology_parts(arg.existing_parts, arg.new_part)
    /\ call' = "merge_chronology_parts"
    /\ UNCHANGED <<arg, pipeVars>>

\* One of the merge LLM calls raises: the exception leaves the function
CallMergeRaises ==
    /\ call = "none"
    /\ MergeCalls(arg.existing_parts, arg.new_part) # {}
    /\ call' = "raised"
    /\ UNCHANGED <<ret, arg, pipeVars>>

NextMerge == CallMergeReturns \/ CallMergeRaises

SpecMerge == InitMerge /\ [][NextMerge]_vars

\* C10: after merge_chronology_parts on a store without a shared date header,
\* no date header occurs in more than one part of the resulting store,
\* whatever number of existing parts the new part overlaps.
C10_NoDuplicateDates ==
    call = "merge_chronology_parts" => NoSharedDate(ret)

----------------------------------------------------------------------------
(* Further properties of the orchestrator *)

\* C11: in each entry point, every non-empty parsed chunk narrative enters the
\* narrative store through merge_chronology_parts, never by a plain append:
\* the store after the chunk is the merger's result on the store before it.
C11_StoredThroughMerger ==
    [][(pc = "parsed" /\ pc' = "loop" /\ mem.chronology # EmptyText) =>
          /\ mem'.chronology_parts =
                merge_chronology_parts(mem.chronology_parts, mem.chronology)
          /\ disk'.chronology_parts =
                merge_chronology_parts(mem.chronology_parts, mem.chronology)]_vars

----------------------------------------------------------------------------
(* Specification of the compressor: the history of day summaries grows by  *)
(* one summary at a time; after each append, and again on the unchanged    *)
(* history, _apply_hierarchical_compression runs against the cache the     *)
(* previous call left.  _compress_group is also applied to single groups.  *)
(* The settings and align_from_end (CONTEXT_OPTIMIZED_WINDOW_ENABLED) are   *)
(* drawn at the start.                                                      *)

CompressorConfigs ==
    [chunk_max : {1}, full : {1}, daily : 0..MaxDaily, weekly : 1..MaxWeekly,
     group : 1..MaxGroup, super : 2..MaxSuper]

InitCompress ==
    /\ Idle
    /\ \E cfg \in CompressorConfigs, align_from_end \in BOOLEAN :
          arg = [all_summaries |-> <<>>, cfg |-> cfg, align_from_end |-> align_from_end,
                 cache |-> EmptyCache, llm_ok |-> TRUE, prev_lines |-> <<>>,
                 prev_summaries |-> <<>>, group |-> <<>>]
    /\ ret = [lines |-> <<>>, cache |-> EmptyCache, calls |-> 0, text |-> <<>>]
    /\ call = "none"

Compressed(all_summaries, llm_ok, name) ==
    /\ arg' = [arg EXCEPT !.all_summaries = all_summaries, !.cache = ret.cache,
                          !.llm_ok = llm_ok, !.prev_lines = ret.lines,
                          !.prev_summaries = arg.all_summaries, !.group = <<>>]
    /\ ret' = _apply_hierarchical_compression(all_summaries, ret.cache,
                                              arg.align_from_end, arg.cfg, llm_ok)
                 @@ [text |-> <<>>]
    /\ call' = name
    /\ UNCHANGED pipeVars

\* A new day summary is appended to the history and the context is compressed
CallCompression ==
    /\ call \notin {"_compress_group", "head_removed", "head_added"}
    /\ Len(arg.all_summaries) < MaxHistory
    /\ \E t \in 1..MaxText, llm_ok \in BOOLEAN :
          Compressed(Append(arg.all_summaries,
                            Line(Len(arg.all_summaries) + 1,
                                 Len(arg.all_summaries) + 1, <<t>>)),
                     llm_ok, "_apply_hierarchical_compression")

\* The context is compressed again for the unchanged history
CallCompressionAgain ==
    /\ call \in {"_apply_hierarchical_compression", "again"}
    /\ \E llm_ok \in BOOLEAN : Compressed(arg.all_summaries, llm_ok, "again")

GroupCompressed(group, c, llm_ok) ==
    /\ arg' = [arg EXCEPT !.cache = ret.cache, !.llm_ok = llm_ok, !.group = group,
                          !.prev_lines = <<>>]
    /\ ret' = [lines |-> <<>>,
               cache |-> [groups |-> c.cache, super_groups |-> ret.cache.super_groups],
               calls |-> c.calls, text |-> c.text]
    /\ call' = "_compress_group"
    /\ UNCHANGED pipeVars

\* _compress_group on a group of consecutive summaries of the history,
\* against the "groups" dict of the cache, and then on the same group again
CallCompressGroup ==
    /\ call \notin {"none", "head_removed", "head_added"}
    /\ \E a \in 1..Len(arg.all_summaries), llm_ok \in BOOLEAN :
          /\ a + arg.cfg.group - 1 <= Len(arg.all_summaries)
          /\ call = "_compress_group" =>
                arg.group = SubSeq(arg.all_summaries, a, a + arg.cfg.group - 1)
          /\ GroupCompressed(SubSeq(arg.all_summaries, a, a + arg.cfg.group - 1),
                             _compress_group(SubSeq(arg.all_summaries, a,
                                                    a + arg.cfg.group - 1),
                                             ret.cache.groups, llm_ok),
                             llm_ok)

\* The window of the optimized mode has moved: the oldest summaries have left
\* the list given to the compressor, which is aligned from the end
CallCompressionHeadRemoved ==
    /\ call \in {"_apply_hierarchical_compression", "again"}
    /\ arg.align_from_end
    /\ \E d \in 1..Len(arg.all_summaries) - 1, llm_ok \in BOOLEAN :
          Compressed(SubSeq(arg.all_summaries, d + 1, Len(arg.all_summaries)),
                     llm_ok, "head_removed")

\* The window has grown at its old end: the summary of the day before the
\* oldest one is in the list given to the compressor
CallCompressionHeadAdded ==
    /\ call \in {"_apply_hierarchical_compression", "again"}
    /\ arg.align_from_end
    /\ Len(arg.all_summaries) < MaxHistory
    /\ \E t \in 1..MaxText, llm_ok \in BOOLEAN :
          Compressed(<<Line(arg.all_summaries[1].lo - 1,
                            arg.all_summaries[1].lo - 1, <<t>>)>>
                        \o arg.all_summaries,
                     llm_ok, "head_added")

NextCompress ==
    \/ CallCompression
    \/ CallCompressionAgain
    \/ CallCompressGroup
    \/ CallCompressionHeadRemoved
    \/ CallCompressionHeadAdded

SpecCompress == InitCompress /\ [][NextCompress]_vars

\* The text of the lines of a group, which decides its cache key
GroupText(lines) == Concat([i \in 1..Len(lines) |-> <<lines[i].lo, lines[i].hi>> \o lines[i].text])

\* C12: compressing a group whose text is a key of the cache makes no LLM call
\* and returns the stored text, leaving the cache as it is; compressing it
\* for the first time makes one call and stores the text.  Compressing a
\* whole history a second time against the cache the first time left makes
\* no call, for groups and super-groups, and gives the same lines.
C12_CacheHit ==
    /\ call = "_compress_group" =>
          IF GroupText(arg.group) \in DOMAIN arg.cache.groups
          THEN /\ ret.calls = 0
               /\ ret.text = arg.cache.groups[GroupText(arg.group)]
               /\ ret.cache = arg.cache
          ELSE /\ ret.calls = 1
               /\ GroupText(arg.group) \in DOMAIN ret.cache.groups
               /\ ret.cache.groups[GroupText(arg.group)] = ret.text
    /\ call = "again" =>
          /\ ret.calls = 0
          /\ ret.cache = arg.cache
          /\ ret.lines = arg.prev_lines

\* C12 witness: a history whose compression took group and super-group calls
\* is compressed again without a call
C12_Witness ==
    /\ call = "again"
    /\ ret.calls = 0
    /\ DOMAIN ret.cache.groups # {}
    /\ DOMAIN ret.cache.super_groups # {}

----------------------------------------------------------------------------
(* Properties of the persisted state across runs *)

\* Every entry of dict a is an entry of dict b
SubDict(a, b) == \A k \in DOMAIN a : k \in DOMAIN b /\ b[k] = a[k]

\* The compression cache a run would load from the state file
PersistedCache == load_state(disk).compression_cache

----------------------------------------------------------------------------
(* Properties of the compressor on a growing history *)

\* The summaries older than Tier 1 (all_summaries[:-tier1_count])
RemainingOf(all_summaries, cfg) ==
    IF Min(cfg.daily, Len(all_summaries)) < Len(all_summaries)
    THEN PyDropLastN(all_summaries, Min(cfg.daily, Len(all_summaries)))
    ELSE <<>>

\* The number of complete groups of a history, and its k-th group counted
\* from the oldest summary
CompleteGroupCount(all_summaries, cfg) ==
    Len(RemainingOf(all_summaries, cfg)) \div cfg.group

GroupAt(all_summaries, cfg, k) ==
    SubSeq(RemainingOf(all_summaries, cfg), (k - 1) * cfg.group + 1, k * cfg.group)

\* What an append leaves alone: the groups complete before it
GroupsStable ==
    /\ \A k \in 1..CompleteGroupCount(arg.all_summaries, arg.cfg) :
          /\ k <= Len(BuildGroups(RemainingOf(arg'.all_summaries, arg.cfg),
                                  arg.cfg.group, arg.align_from_end))
          /\ BuildGroups(RemainingOf(arg'.all_summaries, arg.cfg),
                         arg.cfg.group, arg.align_from_end)[k]
                = GroupAt(arg.all_summaries, arg.cfg, k)
          /\ GroupText(GroupAt(arg.all_summaries, arg.cfg, k))
                \in DOMAIN ret.cache.groups
          /\ ret'.cache.groups[GroupText(GroupAt(arg.all_summaries, arg.cfg, k))]
                = ret.cache.groups[GroupText(GroupAt(arg.all_summaries, arg.cfg, k))]
    /\ Cardinality(DOMAIN ret'.cache.groups \ DOMAIN ret.cache.groups) <= 1
    /\ SubDict(ret.cache.groups, ret'.cache.groups)

\* A summary is appended to a history that has been compressed
AppendStep ==
    /\ call' = "_apply_hierarchical_compression"
    /\ call \in {"_apply_hierarchical_compression", "again"}

\* C14 as stated: appending one day summary to the end of the history changes
\* neither the membership nor the compressed text of a group that was
\* complete before the append; at most the newest group, incomplete before,
\* is compressed anew.  It fails when the groups are aligned from the end.
C14_GroupBoundaryStability == [][AppendStep => GroupsStable]_vars

\* C14 amended: with the groups aligned from the start (align_from_end false,
\* the default), appending one day summary to the end of the history changes
\* neither the membership nor the compressed text of a group that was
\* complete before the append; at most the newest group is compressed anew.
C14_GroupBoundaryStabilityFromStart ==
    [][(AppendStep /\ ~arg.align_from_end) => GroupsStable]_vars

\* C14 witness: a summary was appended to a history with a complete group of
\* two summaries, and no group was compressed anew
C14_Witness ==
    /\ call = "_apply_hierarchical_compression"
    /\ ~arg.align_from_end
    /\ arg.cfg.group = 2
    /\ CompleteGroupCount(arg.all_summaries, arg.cfg) >= 1
    /\ Len(RemainingOf(arg.all_summaries, arg.cfg)) % 2 = 1
    /\ DOMAIN arg.cache.groups # {}
    /\ ret.cache.groups = arg.cache.groups


----------------------------------------------------------------------------
(* Properties of a failing compression call *)

\* The keys a call added to a dict of the cache
NewKeys(before, after) == DOMAIN after \ DOMAIN before

\* Text v occurs inside text s
OccursIn(v, s) ==
    \E a \in 1..Len(s) : a + Len(v) - 1 <= Len(s) /\ SubSeq(s, a, a + Len(v) - 1) = v

\* The context lines cover the days of the history once, oldest first
CoversHistory(lines, all_summaries) ==
    /\ all_summaries # <<>> => lines # <<>>
    /\ lines # <<>> =>
          /\ all_summaries # <<>>
          /\ lines[1].lo = all_summaries[1].lo
          /\ lines[Len(lines)].hi = all_summaries[Len(all_summaries)].hi
    /\ \A i \in 1..(Len(lines) - 1) : lines[i + 1].lo = lines[i].hi + 1

----------------------------------------------------------------------------
(* Properties of the report file *)

\* C16: a run that stops on a failed LLM call (the narrative call, or the
\* overlap-merge call of run_analysis_pipeline) leaves the report file as it
\* was.  The report file changes in one step only: after the commit of a
\* run, when it is written from the parts the commit persisted.
C16_ReportOnlyAtCommit ==
    [][/\ (pc # "idle" /\ hist'.result \in {"failed", "merge_failed"}) => report' = report
       /\ report' # report =>
             /\ pc = "committed"
             /\ hist'.result = "committed"
             /\ disk.chunk_index = 0 /\ disk.pending_tx_keys = {}
             /\ report' = save_report(disk.chronology_parts)]_vars

\* C16 witness: a run has stopped on a failed narrative call while the report
\* of an earlier committed run is on disk
C16_Witness ==
    /\ hist.result = "failed"
    /\ report.written
    /\ report.parts # <<>>
    /\ pc = "idle"

----------------------------------------------------------------------------
(* Specification of the pipeline under retries.  background_refresh fetches *)
(* before each invocation, so transactions can join the file between two   *)
(* runs.  A started run takes its steps (call_llm has a request timeout and *)
(* a bounded number of retries, the loop runs over a finite list of chunks),*)
(* the caller invokes again after a run that stopped on a failed LLM call   *)
(* (the pipeline does not stay idle forever after a failed run), and        *)
(* neither the narrative call nor the merge call fails every time.          *)

\* The outcome of the last run is kept across a fetch
FetchLive ==
    /\ pc = "idle"
    /\ Len(file) < MaxLiveFile
    /\ \E k \in (1..MaxLiveFile) \ KeysOf(file) :
          file' = InsertDesc(file, TxOfKey(k, DUST_THRESHOLD_USD + 1))
    /\ hist' = [NoHist EXCEPT !.result = hist.result, !.due = hist.due]
    /\ UNCHANGED <<disk, report, pc, mem, funVars>>

InitLive ==
    /\ file = <<>>
    /\ disk \in {NoStateFile, LegacyStateFile}
    /\ report = NoReport
    /\ pc = "idle"
    /\ mem = NoMem
    /\ hist = NoHist
    /\ arg = <<>> /\ ret = <<>> /\ call = "none"

\* The last run stopped on a failed LLM call and no run is in progress.  A
\* fetch keeps this state; the step that leaves it is the next invocation.
AwaitingRetry == pc = "idle" /\ hist.result \in {"failed", "merge_failed"}

\* The keys due at the commit: the filtered transactions the file held when
\* the first run since the last committed run was started
DueKeys == IF AwaitingRetry THEN hist.due ELSE KeysOf(FilteredFile)

\* A run with a batch starts; no expected result is recorded for it
BeginLive(entry, st, new_txs, chunks) ==
    /\ Resuming(st) \/ new_txs # <<>>
    /\ BeginMem(entry, st, new_txs, chunks)
    /\ hist' = [Unclean(Started(entry, st)) EXCEPT
                  !.inBatch = TRUE, !.completed = StartChunk(st), !.total = Len(chunks),
                  !.due = DueKeys]

BeginLiveBatch(entry, st, new_txs) ==
    BeginLive(entry, st, new_txs, make_chunks(group_by_days(new_txs), Config.chunk_max))

BeginLiveWith(entry, st, txs) == BeginLiveBatch(entry, st, SelectBatch(st, txs))

RunBeginLive ==
    /\ pc = "idle"
    /\ file # <<>>
    /\ \E entry \in Entries :
          BeginLiveWith(entry, load_state(disk),
                        filter_transactions(file, DUST_THRESHOLD_USD))
    /\ pc' = "loop"
    /\ UNCHANGED <<file, disk, report, funVars>>

\* The caller invokes the pipeline again after a failed run: the step from
\* AwaitingRetry into the loop, which is a step of RunBeginLive
Retry == AwaitingRetry /\ pc' = "loop"

\* The narrative call of the next chunk is answered: the step from the loop
\* to the parsed narrative, which is a step of ChunkCallReturns
CallPending == pc = "loop" /\ mem.i < Len(mem.chunks)

CallAnswered == CallPending /\ pc' = "parsed"

NextLive ==
    \/ FetchLive
    \/ RunEmptyFile
    \/ RunNoop
    \/ RunBeginLive
    \/ ChunkCallReturns
    \/ ChunkCallRaises
    \/ ChunkStore
    \/ ChunkStoreRaises
    \/ Commit
    \/ WriteReport

SpecLive ==
    /\ InitLive
    /\ [][NextLive]_vars
    /\ WF_pc(Retry)
    /\ SF_pc(CallAnswered)
    /\ SF_vars(ChunkStore)
    /\ WF_vars(Commit)
    /\ WF_vars(WriteReport)

\* A committed state: no run in progress, the last run committed, nothing
\* pending and the chunk index back at 0
CommittedState ==
    /\ pc = "idle"
    /\ hist.result = "committed"
    /\ disk.exists
    /\ disk.pending_tx_keys = {}
    /\ disk.chunk_index = 0

\* C17: every started run ends, and from a started run a committed state is
\* reached in which the key of every filtered transaction of the file is a
\* processed key.
C17_EventuallyAllProcessed ==
    /\ (pc # "idle") ~> (pc = "idle")
    /\ (pc # "idle") ~> (CommittedState /\ KeysOf(FilteredFile) \subseteq disk.processed_tx_keys)

\* C17, for the transactions of the first run: every started run ends, and
\* from a started run a committed state is reached in which the key of every
\* filtered transaction that the file held when the first run since the last
\* committed run was started is a processed key.
C17_EventuallyDueProcessed ==
    /\ (pc # "idle") ~> (pc = "idle")
    /\ (pc # "idle") ~> (CommittedState /\ hist.due \subseteq disk.processed_tx_keys)

\* C17 witness: a run that resumed after a failed run has committed, and a
\* transaction that joined the file in between is not processed
C17_Witness ==
    /\ CommittedState
    /\ hist.resumed
    /\ hist.due # {}
    /\ hist.due \subseteq disk.processed_tx_keys
    /\ ~(KeysOf(FilteredFile) \subseteq disk.processed_tx_keys)

----------------------------------------------------------------------------
(* Properties of the order of the narrative calls *)

\* The chunk index a run that loaded `st` starts at
ExpectedStart(st) ==
    IF st.pending_tx_keys # {} /\ st.chunk_index > 0 THEN st.chunk_index ELSE 0

\* The transaction lines of the narrative calls of the run so far, in the
\* order they were sent
LinesSent ==
    Concat([j \in 1..Len(hist.calls) |-> FlattenDays(mem.chunks[hist.calls[j] + 1])])

----------------------------------------------------------------------------
(* Properties of the persisted narrative store *)

\* Part `new` stands where part `old` stood: it is the same part, or the
\* merge of `old` with the narrative being stored, with which it shares a date
KeptOrMerged(old, new) ==
    \/ new = old
    \/ /\ pc = "parsed"
       /\ mem.entry = "run_analysis_pipeline"
       /\ mem.chronology # EmptyText
       /\ Overlaps(old, mem.chronology)
       /\ new = merge_duplicate_dates_with_llm(old, mem.chronology)

----------------------------------------------------------------------------
(* Specification of the dust filter: a list of transactions of every type  *)
(* and a threshold are drawn, then filter_transactions is applied.         *)

TxTypes == {"swap", "lp", "lending", "wrap", "transfer", "bridge", "nft_transfer",
            "contract_interaction", "unknown"}

UsdFields == {Absent, None} \cup {Usd(n) : n \in 0..MaxUsd}

\* A transaction dict of type t; the two drawn fields are the two legs of a
\* swap or lp, else amount_usd and token_amount_usd
TypedTx(k, t, a, b) ==
    [key |-> k, ts |-> k, tx_type |-> t,
     amount_usd |-> IF t \in {"swap", "lp"} THEN Absent ELSE a,
     token_amount_usd |-> IF t = "transfer" THEN b ELSE Absent,
     token0_amount_usd |-> IF t \in {"swap", "lp"} THEN a ELSE Absent,
     token1_amount_usd |-> IF t \in {"swap", "lp"} THEN b ELSE Absent]

TypedTxs(k) ==
    {TypedTx(k, t, a, b) : t \in TxTypes, a \in UsdFields, b \in UsdFields}

InitFilter ==
    /\ Idle
    /\ \E n \in 0..MaxFilterLen, threshold \in 0..MaxThreshold :
          \E txs \in [1..n -> UNION {TypedTxs(k) : k \in 1..MaxFilterLen}] :
             /\ \A i \in 1..n : txs[i].key = i
             /\ arg = [txs |-> txs, threshold |-> threshold]
    /\ ret = <<>>
    /\ call = "none"

CallFilterTransactions ==
    /\ call = "none"
    /\ ret' = filter_transactions(arg.txs, arg.threshold)
    /\ call' = "filter_transactions"
    /\ UNCHANGED <<arg, pipeVars>>

NextFilter == CallFilterTransactions

SpecFilter == InitFilter /\ [][NextFilter]_vars

\* The amount a field carries: a missing or None amount counts as 0
AmountOf(field) == IF field.state = "value" THEN field.v ELSE 0

\* The USD value of a transaction as the contract states it; the single
\* amount of a transfer is amount_usd, or token_amount_usd when the dict
\* has no amount_usd key
StatedUsd(tx) ==
    CASE tx.tx_type = "swap" ->
            IF AmountOf(tx.token0_amount_usd) >= AmountOf(tx.token1_amount_usd)
            THEN AmountOf(tx.token0_amount_usd) ELSE AmountOf(tx.token1_amount_usd)
      [] tx.tx_type = "lp" ->
            AmountOf(tx.token0_amount_usd) + AmountOf(tx.token1_amount_usd)
      [] tx.tx_type \in {"lending", "wrap", "bridge"} -> AmountOf(tx.amount_usd)
      [] tx.tx_type = "transfer" ->
            IF tx.amount_usd = Absent THEN AmountOf(tx.token_amount_usd)
            ELSE AmountOf(tx.amount_usd)
      [] OTHER -> 0

StatedKeep(tx, threshold) ==
    /\ tx.tx_type # "contract_interaction"
    /\ tx.tx_type = "nft_transfer" \/ StatedUsd(tx) >= threshold

\* C20: what filter_transactions returns holds exactly the transactions of
\* its input that are not contract interactions and are an nft_transfer or
\* valued at the threshold or more (swap: the larger leg, lp: the sum of the
\* legs, lending, wrap, bridge, transfer: the amount), each once and in the
\* order of the input.
C20_DustFilter ==
    call = "filter_transactions" =>
       /\ Range(ret) = {tx \in Range(arg.txs) : StatedKeep(tx, arg.threshold)}
       /\ \A i, j \in 1..Len(ret) : i < j => ret[i].key < ret[j].key

\* C20 witness: an nft_transfer without value and an lp whose legs are each
\* below the threshold came back in the order of the input
C20_Witness ==
    /\ call = "filter_transactions"
    /\ Len(arg.txs) = 2
    /\ arg.txs[1].tx_type = "nft_transfer" /\ AmountOf(arg.txs[1].amount_usd) = 0
    /\ arg.txs[2].tx_type = "lp"
    /\ AmountOf(arg.txs[2].token0_amount_usd) < arg.threshold
    /\ AmountOf(arg.txs[2].token1_amount_usd) < arg.threshold
    /\ ret = arg.txs

----------------------------------------------------------------------------
(* Further properties of the overlap merger *)

\* The indexes of the existing parts that share a date header with the new part
SharingParts(existing_parts, new_part) ==
    {i \in 1..Len(existing_parts) :
        \E d \in extract_dates_from_chronology(new_part) :
            d \in extract_dates_from_chronology(existing_parts[i])}

\* C21: merge_chronology_parts keeps every existing part that shares no date
\* header with the new part, at its index.  Without a sharing part the
\* result is the list with the new part appended last; with one, the result
\* has the length of the list; an empty new part gives the list back.
C21_MergeFrame ==
    call = "merge_chronology_parts" =>
       /\ \A i \in (1..Len(arg.existing_parts))
                     \ SharingParts(arg.existing_parts, arg.new_part) :
             i <= Len(ret) /\ ret[i] = arg.existing_parts[i]
       /\ arg.new_part = EmptyText => ret = arg.existing_parts
       /\ (arg.new_part # EmptyText
             /\ SharingParts(arg.existing_parts, arg.new_part) = {}) =>
             ret = Append(arg.existing_parts, arg.new_part)
       /\ SharingParts(arg.existing_parts, arg.new_part) # {} =>
             /\ Len(ret) = Len(arg.existing_parts)
             /\ \A i \in SharingParts(arg.existing_parts, arg.new_part) :
                   ret[i] # arg.existing_parts[i]

\* C21 witness: the new part shares a date with the second of three parts
\* only; the result has three parts, the first and the third as they were
C21_Witness ==
    /\ call = "merge_chronology_parts"
    /\ Len(arg.existing_parts) = 3
    /\ SharingParts(arg.existing_parts, arg.new_part) = {2}
    /\ Len(ret) = 3
    /\ ret[1] = arg.existing_parts[1]
    /\ ret[3] = arg.existing_parts[3]

----------------------------------------------------------------------------
(* Further properties of the chunking functions *)

\* A day group of n transactions
DayOf(day, n) == [day |-> day, txs |-> [i \in 1..n |-> [key |-> i, ts |-> day * TicksPerDay]]]

\* The chunks of the days of 10, 25 and 10 transactions under the limit 30
ExampleChunks == make_chunks(<<DayOf(1, 10), DayOf(2, 25), DayOf(3, 10)>>, 30)

\* C22: a chunk is closed only when the next day would not fit: for every two
\* consecutive chunks, the transactions of the earlier chunk and of the first
\* day of the later chunk together exceed max_txs.  Days of 10, 25 and 10
\* transactions under the limit 30 give three chunks of one day each.
C22_GreedyChunks ==
    /\ call = "make_chunks" =>
          \A c \in 1..Len(ret) - 1 :
              ChunkTxCount(ret[c]) + Len(ret[c + 1][1].txs) > arg.max_txs
    /\ ExampleChunks = <<<<DayOf(1, 10)>>, <<DayOf(2, 25)>>, <<DayOf(3, 10)>>>>

\* C22 witness: days of 1, 2 and 1 transactions under the limit 2 came back
\* as three chunks of one day each
C22_Witness ==
    /\ call = "make_chunks"
    /\ arg.max_txs = 2
    /\ Len(ret) = 3
    /\ \A c \in 1..3 : Len(ret[c]) = 1
    /\ Len(ret[1][1].txs) = 1 /\ Len(ret[2][1].txs) = 2 /\ Len(ret[3][1].txs) = 1

----------------------------------------------------------------------------
(* Properties of the tiers of the compressor *)

SpanOf(l) == l.hi - l.lo + 1

HasMark(text) == text # <<>> /\ text[1] \in {CompressedMark, FallbackMark}

\* The line is a day summary of the history, as it is
IsVerbatim(l, all_summaries) ==
    /\ l.lo = l.hi
    /\ l.lo \in 1..Len(all_summaries)
    /\ l = all_summaries[l.lo]

\* The line is the compression of the `size` summaries of its days
IsGroupLine(l, all_summaries, size) ==
    /\ SpanOf(l) = size
    /\ l.lo >= 1 /\ l.hi <= Len(all_summaries)
    /\ HasMark(l.text)
    /\ Tail(l.text) = GroupText(SubSeq(all_summaries, l.lo, l.hi))

\* The line is the compression of super_size compressed groups of `size`
\* summaries each
IsSuperLine(l, size, super_size) ==
    /\ SpanOf(l) = size * super_size
    /\ HasMark(l.text)
    /\ Len(l.text) = 1 + super_size * (3 + 3 * size)

\* C23: every line of the compressed context is a day summary as it is, the
\* compression of exactly G summaries, or the compression of exactly S
\* compressed groups; the lines cover each day once.  Every compression call
\* stores one new entry: a group entry is keyed by G consecutive summaries, a
\* super-group entry by S compressed groups.
C23_OnlyCompleteGroups ==
    call \in {"_apply_hierarchical_compression", "again"} =>
       /\ CoversHistory(ret.lines, arg.all_summaries)
       /\ \A i \in 1..Len(ret.lines) :
             \/ IsVerbatim(ret.lines[i], arg.all_summaries)
             \/ IsGroupLine(ret.lines[i], arg.all_summaries, arg.cfg.group)
             \/ IsSuperLine(ret.lines[i], arg.cfg.group, arg.cfg.super)
       /\ \A k \in NewKeys(arg.cache.groups, ret.cache.groups) :
             \E a \in 1..Len(arg.all_summaries) :
                /\ a + arg.cfg.group - 1 <= Len(arg.all_summaries)
                /\ k = GroupText(SubSeq(arg.all_summaries, a, a + arg.cfg.group - 1))
       /\ \A k \in NewKeys(arg.cache.super_groups, ret.cache.super_groups) :
             Len(k) = arg.cfg.super * (3 + 3 * arg.cfg.group)
       /\ ret.calls = Cardinality(NewKeys(arg.cache.groups, ret.cache.groups))
                         + Cardinality(NewKeys(arg.cache.super_groups,
                                               ret.cache.super_groups))

\* C23 witness: with groups of two, the context holds the line of a
\* compressed group and after it, as it is, the one summary of an incomplete
\* group that is older than the recent tier
C23_Witness ==
    /\ call = "_apply_hierarchical_compression"
    /\ arg.cfg.group = 2
    /\ arg.cfg.daily = 1
    /\ Len(arg.all_summaries) = 4
    /\ Len(ret.lines) = 3
    /\ IsGroupLine(ret.lines[1], arg.all_summaries, 2)
    /\ IsVerbatim(ret.lines[2], arg.all_summaries)
    /\ IsVerbatim(ret.lines[3], arg.all_summaries)

\* The groups of the summaries older than the recent tier
GroupsOf(all_summaries, cfg, align_from_end) ==
    IF RemainingOf(all_summaries, cfg) = <<>> THEN <<>>
    ELSE BuildGroups(RemainingOf(all_summaries, cfg), cfg.group, align_from_end)

\* The number of complete groups among the first j groups
CompleteUpTo(groups, size, j) ==
    Cardinality({k \in 1..j : Len(groups[k]) = size})

\* Some line of the context of the given span holds the days of the group
CoveredBySpan(lines, group, span) ==
    \E i \in 1..Len(lines) :
       /\ SpanOf(lines[i]) = span
       /\ lines[i].lo <= group[1].lo
       /\ group[Len(group)].hi <= lines[i].hi

\* The positions, among the groups, of the ceil(N2/G) most recent complete
\* groups (of all complete groups if there are fewer)
RecentComplete(groups, cfg) ==
    {j \in 1..Len(groups) :
        /\ Len(groups[j]) = cfg.group
        /\ CompleteUpTo(groups, cfg.group, Len(groups))
              - CompleteUpTo(groups, cfg.group, j)
              < (cfg.weekly + cfg.group - 1) \div cfg.group}

\* C24 as stated: the ceil(N2/G) most recent complete groups each appear as a
\* line of one group (single-level compression), and every line of a
\* super-group (double compression) covers only complete groups older than
\* those.
C24_Tier2Ceil ==
    call \in {"_apply_hierarchical_compression", "again"} =>
       LET groups == GroupsOf(arg.all_summaries, arg.cfg, arg.align_from_end)
       IN  \A j \in RecentComplete(groups, arg.cfg) :
              /\ CoveredBySpan(ret.lines, groups[j], arg.cfg.group)
              /\ ~CoveredBySpan(ret.lines, groups[j], arg.cfg.group * arg.cfg.super)

\* The first of the groups that Tier 2 takes: the last max(1, N2 div G)
\* groups, an incomplete newest group counted among them
Tier2Start(groups, cfg) ==
    Max(1, Len(groups) - Max(1, cfg.weekly \div cfg.group) + 1)

\* C24 amended: Tier 2 takes the last max(1, N2 div G) groups of the grouping,
\* the incomplete one included; each complete group among them appears as a
\* line of one group.  Of the k complete groups older than those, the first
\* S * (k div S) are covered by the lines of super-groups and the others
\* appear as lines of one group.
C24_Tier2Floor ==
    call \in {"_apply_hierarchical_compression", "again"} =>
       LET groups == GroupsOf(arg.all_summaries, arg.cfg, arg.align_from_end)
           first == Tier2Start(groups, arg.cfg)
           older == CompleteUpTo(groups, arg.cfg.group, first - 1)
       IN  \A j \in 1..Len(groups) :
              Len(groups[j]) = arg.cfg.group =>
                 IF j < first
                       /\ CompleteUpTo(groups, arg.cfg.group, j)
                             <= arg.cfg.super * (older \div arg.cfg.super)
                 THEN CoveredBySpan(ret.lines, groups[j],
                                    arg.cfg.group * arg.cfg.super)
                 ELSE CoveredBySpan(ret.lines, groups[j], arg.cfg.group)

\* C24 witness: groups of two cut from the start, N2 = 3: of the three
\* complete groups the newest alone is in Tier 2, the two older ones are
\* compressed into one super-group
C24_Witness ==
    /\ call = "_apply_hierarchical_compression"
    /\ arg.cfg.group = 2 /\ arg.cfg.super = 2 /\ arg.cfg.weekly = 3
    /\ arg.cfg.daily = 1
    /\ ~arg.align_from_end
    /\ Len(arg.all_summaries) = 7
    /\ Len(ret.lines) = 3
    /\ SpanOf(ret.lines[1]) = 4
    /\ IsGroupLine(ret.lines[2], arg.all_summaries, 2)
    /\ IsVerbatim(ret.lines[3], arg.all_summaries)

\* Some compressed line of the context holds the days of the group
CompressedInto(lines, group) ==
    \E i \in 1..Len(lines) :
       /\ HasMark(lines[i].text)
       /\ lines[i].lo <= group[1].lo
       /\ group[Len(group)].hi <= lines[i].hi

\* The groups of the first `count` summaries
GroupsOfFirst(all_summaries, count, size, align_from_end) ==
    IF count = 0 THEN <<>>
    ELSE BuildGroups(SubSeq(all_summaries, 1, count), size, align_from_end)

\* C25: the last min(N1, n) lines of the context are the last min(N1, n)
\* summaries as they are, and the n - min(N1, n) older summaries are grouped:
\* each complete group of them is found compressed in the context.
C25_RecentTier ==
    call \in {"_apply_hierarchical_compression", "again"} =>
       LET n == Len(arg.all_summaries)
           k == Min(arg.cfg.daily, n)
           groups == GroupsOfFirst(arg.all_summaries, n - k, arg.cfg.group,
                                   arg.align_from_end)
       IN  /\ Len(ret.lines) >= k
           /\ SubSeq(ret.lines, Len(ret.lines) - k + 1, Len(ret.lines))
                 = SubSeq(arg.all_summaries, n - k + 1, n)
           /\ \A j \in 1..Len(groups) :
                 Len(groups[j]) = arg.cfg.group => CompressedInto(ret.lines, groups[j])

\* The same for CONTEXT_DAILY_COUNT of at least 1
RecentTierFromOne == arg.cfg.daily >= 1 => C25_RecentTier

\* The complete groups of a list of summaries, and those of them that begin
\* on or after a given day
CompleteGroupSet(all_summaries, cfg, align_from_end) ==
    LET groups == GroupsOf(all_summaries, cfg, align_from_end)
    IN  {groups[j] : j \in {k \in 1..Len(groups) : Len(groups[k]) = cfg.group}}

GroupsFromDay(all_summaries, cfg, align_from_end, day) ==
    {g \in CompleteGroupSet(all_summaries, cfg, align_from_end) : g[1].lo >= day}

\* C26: with groups aligned from the end, a list and the list with summaries
\* removed or added at its old end have the same complete groups, but for
\* the groups that hold a removed or added summary; compressing the changed
\* list against the cache the other left stores no group under a new key but
\* for a group that holds an added summary.
C26_HeadChangeKeepsGroups ==
    /\ call = "head_removed" =>
          /\ CompleteGroupSet(arg.all_summaries, arg.cfg, arg.align_from_end)
                = GroupsFromDay(arg.prev_summaries, arg.cfg, arg.align_from_end,
                                arg.all_summaries[1].lo)
          /\ NewKeys(arg.cache.groups, ret.cache.groups) = {}
    /\ call = "head_added" =>
          /\ CompleteGroupSet(arg.prev_summaries, arg.cfg, arg.align_from_end)
                = GroupsFromDay(arg.all_summaries, arg.cfg, arg.align_from_end,
                                arg.prev_summaries[1].lo)
          /\ NewKeys(arg.cache.groups, ret.cache.groups)
                \subseteq {GroupText(g) :
                              g \in {h \in CompleteGroupSet(arg.all_summaries, arg.cfg,
                                                            arg.align_from_end) :
                                        h[1].lo < arg.prev_summaries[1].lo}}

\* C26 witness: with groups of two and one recent summary, the oldest of five
\* summaries is removed: the group of days 3 and 4 stays and is found in the
\* cache, the group of days 1 and 2 is gone and day 2 is given as it is
C26_Witness ==
    /\ call = "head_removed"
    /\ arg.cfg.group = 2 /\ arg.cfg.daily = 1
    /\ Len(arg.prev_summaries) = 5
    /\ Len(arg.all_summaries) = 4
    /\ Len(ret.lines) = 3
    /\ ret.lines[1] = arg.all_summaries[1]
    /\ ret.lines[2].lo = 3 /\ ret.lines[2].hi = 4 /\ HasMark(ret.lines[2].text)
    /\ ret.lines[3] = arg.all_summaries[4]
    /\ ret.calls = 0

----------------------------------------------------------------------------
(* Optimized-window mode (CONTEXT_OPTIMIZED_WINDOW_ENABLED)                *)
(*                                                                        *)
(* day_items are the items of extract_day_metadata, oldest first, an       *)
(* importance of 0 standing for None.  day_tx_counts is the dict           *)
(* date -> count, a function on the dates that are its keys.  wcfg carries *)
(* CONTEXT_WINDOW_TX_COUNT (window), CONTEXT_TX_FALLBACK_PER_DAY           *)
(* (fallback), CONTEXT_IMPORTANCE_MIN (importance_min) and                 *)
(* CONTEXT_IMPORTANCE_ANCHORS (anchors).                                   *)

\* day_txs of the window loop
DayTxs(day, day_tx_counts, fallback_per_day) ==
    IF day \in DOMAIN day_tx_counts THEN Max(1, day_tx_counts[day])
    ELSE fallback_per_day

\* The window loop from index i down: the index it stops at and the
\* transactions covered
RECURSIVE WindowFrom(_, _, _, _, _, _)
WindowFrom(day_items, day_tx_counts, i, covered_txs, tx_window, fallback_per_day) ==
    IF covered_txs + DayTxs(day_items[i].date, day_tx_counts, fallback_per_day)
          >= tx_window \/ i = 1
    THEN [start |-> i,
          covered |-> covered_txs
                         + DayTxs(day_items[i].date, day_tx_counts, fallback_per_day)]
    ELSE WindowFrom(day_items, day_tx_counts, i - 1,
                    covered_txs + DayTxs(day_items[i].date, day_tx_counts,
                                         fallback_per_day),
                    tx_window, fallback_per_day)

\* Mutant of AnchorsFrom: the anchors are taken oldest first
AnchorsOldestFirst(day_items, i, anchors_added, min_importance, max_anchors) ==
    IF i = 0 THEN {}
    ELSE LET J == {j \in 1..i : day_items[j].importance >= min_importance}
         IN  {j \in J : Cardinality({k \in J : k < j}) < max_anchors}

\* The anchor loop from index i down (the indexes above i are the window)
RECURSIVE AnchorsFrom(_, _, _, _, _)
AnchorsFrom(day_items, i, anchors_added, min_importance, max_anchors) ==
    IF i = 0 THEN {}
    ELSE IF day_items[i].importance >= min_importance
    THEN IF anchors_added + 1 >= max_anchors THEN {i}
         ELSE {i} \cup AnchorsFrom(day_items, i - 1, anchors_added + 1,
                                   min_importance, max_anchors)
    ELSE AnchorsFrom(day_items, i - 1, anchors_added, min_importance, max_anchors)

\* The items at the indexes of I, in ascending order of index
RECURSIVE PickFrom(_, _, _)
PickFrom(s, I, i) ==
    IF i > Len(s) THEN <<>>
    ELSE (IF i \in I THEN <<s[i]>> ELSE <<>>) \o PickFrom(s, I, i + 1)

Selection(day_items, start, covered_txs, anchors) ==
    [selected |-> SummaryLines(PickFrom(day_items, (start..Len(day_items)) \cup anchors, 1)),
     window |-> start..Len(day_items),
     anchors |-> anchors,
     covered |-> covered_txs]

SelectionOf(day_items, w, min_importance, max_anchors) ==
    Selection(day_items, w.start, w.covered,
              IF max_anchors > 0
              THEN AnchorsFrom(day_items, w.start - 1, 0, min_importance, max_anchors)
              ELSE {})

\* _select_summaries_by_tx_window: the selected lines, with the indexes of
\* the window and of the anchors and the transactions covered (the stats)
_select_summaries_by_tx_window(day_items, day_tx_counts, wcfg) ==
    IF day_items = <<>>
    THEN [selected |-> <<>>, window |-> {}, anchors |-> {}, covered |-> 0]
    ELSE SelectionOf(day_items,
                     WindowFrom(day_items, day_tx_counts, Len(day_items), 0,
                                Max(1, wcfg.window), Max(1, wcfg.fallback)),
                     Min(5, Max(1, wcfg.importance_min)),
                     Max(0, wcfg.anchors))

\* The summary section of build_context_for_llm in optimized mode, for the
\* day items of the old parts: the lines of the section, the cache and the
\* compression calls
\* Mutant of WindowLines: the selection is compressed whatever the flags
WindowLinesCompressed(all_summaries, compression_active, compression_cache, cfg, llm_ok) ==
    IF all_summaries # <<>>
    THEN _apply_hierarchical_compression(all_summaries, compression_cache, TRUE,
                                         cfg, llm_ok)
    ELSE [lines |-> all_summaries, cache |-> compression_cache, calls |-> 0]

WindowLines(all_summaries, compression_active, compression_cache, cfg, llm_ok) ==
    IF all_summaries # <<>> /\ compression_active
    THEN _apply_hierarchical_compression(all_summaries, compression_cache, TRUE,
                                         cfg, llm_ok)
    ELSE [lines |-> all_summaries, cache |-> compression_cache, calls |-> 0]

BuildWindowContext(all_items, day_tx_counts, wcfg, compression_enabled, compression_with_window, compression_cache, cfg, llm_ok) ==
    WindowLines(_select_summaries_by_tx_window(all_items, day_tx_counts, wcfg).selected,
                compression_enabled /\ compression_with_window,
                compression_cache, cfg, llm_ok)

\* The settings of the window drawn, and those of the compressor
WindowConfigs ==
    [window : 0..MaxWindow, fallback : 0..MaxFallback, importance_min : {0, 4},
     anchors : 0..MaxAnchors]

WindowCompressorConfig ==
    [chunk_max |-> 1, full |-> 1, daily |-> 1, weekly |-> 2, group |-> 2, super |-> 2]

Importances == {0, 3, 5}

InitWindow ==
    /\ Idle
    /\ \E wcfg \in WindowConfigs :
          arg = [day_items |-> <<>>, day_tx_counts |-> <<>>, wcfg |-> wcfg,
                 compression_enabled |-> TRUE, compression_with_window |-> FALSE]
    /\ ret = [selected |-> <<>>, window |-> {}, anchors |-> {}, covered |-> 0,
              lines |-> <<>>]
    /\ call = "none"

\* One more day has been narrated: its item follows the others, and its
\* transaction count is in day_tx_counts or not
AddDayItem ==
    /\ call = "none"
    /\ Len(arg.day_items) < MaxDays
    /\ \E importance \in Importances, t \in 1..MaxText :
          \E counts \in {arg.day_tx_counts}
                           \cup {arg.day_tx_counts @@ (Len(arg.day_items) + 1 :> c) :
                                    c \in 1..MaxDayTxs} :
             arg' = [arg EXCEPT !.day_items =
                                    @ \o extract_day_metadata(
                                            [body |-> <<>>,
                                             secs |-> <<DaySection(Len(arg.day_items) + 1,
                                                                   <<t>>, importance)>>]),
                                !.day_tx_counts = counts]
    /\ call' = "none"
    /\ UNCHANGED <<ret, pipeVars>>

CallSelectSummaries ==
    /\ call = "none"
    /\ ret' = _select_summaries_by_tx_window(arg.day_items, arg.day_tx_counts, arg.wcfg)
                 @@ [lines |-> <<>>]
    /\ call' = "_select_summaries_by_tx_window"
    /\ UNCHANGED <<arg, pipeVars>>

\* build_context_for_llm in optimized mode on the day items of the old parts,
\* under each setting of the two compression flags
CallBuildWindowContext ==
    /\ call = "none"
    /\ \E compression_enabled \in BOOLEAN, compression_with_window \in BOOLEAN,
          llm_ok \in BOOLEAN :
          /\ arg' = [arg EXCEPT !.compression_enabled = compression_enabled,
                                !.compression_with_window = compression_with_window]
          /\ ret' = [lines |-> BuildWindowContext(arg.day_items, arg.day_tx_counts,
                                                  arg.wcfg, compression_enabled,
                                                  compression_with_window, EmptyCache,
                                                  WindowCompressorConfig, llm_ok).lines]
                       @@ _select_summaries_by_tx_window(arg.day_items,
                                                         arg.day_tx_counts, arg.wcfg)
    /\ call' = "build_context_for_llm"
    /\ UNCHANGED pipeVars

NextWindow == AddDayItem \/ CallSelectSummaries \/ CallBuildWindowContext

SpecWindow == InitWindow /\ [][NextWindow]_vars

\* The transactions the days k..n count for
RECURSIVE SuffixTxs(_, _, _, _)
SuffixTxs(day_items, day_tx_counts, fallback_per_day, k) ==
    IF k > Len(day_items) THEN 0
    ELSE DayTxs(day_items[k].date, day_tx_counts, fallback_per_day)
            + SuffixTxs(day_items, day_tx_counts, fallback_per_day, k + 1)

\* The first index of the shortest suffix that reaches the budget, 1 if none
\* does
StatedWindowStart(day_items, day_tx_counts, fallback_per_day, tx_window) ==
    LET K == {k \in 1..Len(day_items) :
                 SuffixTxs(day_items, day_tx_counts, fallback_per_day, k) >= tx_window}
    IN  IF K = {} THEN 1 ELSE CHOOSE k \in K : \A j \in K : j <= k

\* The newest max_anchors of the days older than the window whose importance
\* reaches the threshold
StatedAnchors(day_items, start, min_importance, max_anchors) ==
    LET H == {j \in 1..start - 1 : day_items[j].importance >= min_importance}
    IN  {j \in H : Cardinality({k \in H : k > j}) < max_anchors}

\* C28: the window of the selection is the shortest suffix of the day list
\* whose days, each counting max(1, its count) or the fallback when it has
\* none, reach the budget (the whole list if none does); the anchors are the
\* newest days older than the window with an importance of at least the
\* threshold, at most max_anchors of them; the selected lines are the lines
\* of these days, oldest first.
C28_WindowSelection ==
    (call = "_select_summaries_by_tx_window" /\ arg.day_items # <<>>) =>
       LET start == StatedWindowStart(arg.day_items, arg.day_tx_counts,
                                      Max(1, arg.wcfg.fallback),
                                      Max(1, arg.wcfg.window))
           anchors == StatedAnchors(arg.day_items, start,
                                    Min(5, Max(1, arg.wcfg.importance_min)),
                                    Max(0, arg.wcfg.anchors))
       IN  /\ ret.window = start..Len(arg.day_items)
           /\ ret.anchors = anchors
           /\ Len(ret.selected) = Cardinality(ret.window \cup anchors)
           /\ \A i \in 1..Len(ret.selected) :
                 /\ \E j \in ret.window \cup anchors :
                       ret.selected[i] = Line(arg.day_items[j].date,
                                              arg.day_items[j].date,
                                              arg.day_items[j].summary)
                 /\ i > 1 => ret.selected[i - 1].lo < ret.selected[i].lo

\* C28 witness: three days, a budget of 2 reached by the newest day alone,
\* one anchor allowed: of the two older days of importance 5 the newer one is
\* the anchor and the oldest day is left out
C28_Witness ==
    /\ call = "_select_summaries_by_tx_window"
    /\ Len(arg.day_items) = 3
    /\ arg.wcfg.window = 2 /\ arg.wcfg.anchors = 1 /\ arg.wcfg.importance_min = 4
    /\ 3 \in DOMAIN arg.day_tx_counts /\ arg.day_tx_counts[3] = 2
    /\ arg.day_items[1].importance = 5 /\ arg.day_items[2].importance = 5
    /\ ret.window = {3}
    /\ ret.anchors = {2}
    /\ Len(ret.selected) = 2
    /\ ret.selected[1].lo = 2 /\ ret.selected[2].lo = 3

\* The summary line of the j-th day item
ItemLine(day_items, j) ==
    Line(day_items[j].date, day_items[j].date, day_items[j].summary)

----------------------------------------------------------------------------
(* Specification of build_context_for_llm in legacy mode: a store of parts *)
(* and FULL_CHRONOLOGY_COUNT are drawn, then the context is built against  *)
(* an empty cache.                                                         *)

InitContext ==
    /\ Idle
    /\ \E ds \in SeqUpTo(SUBSET (1..MaxDate), MaxParts), full \in 0..MaxFull,
          llm_ok \in BOOLEAN :
          arg = [chronology_parts |-> [i \in 1..Len(ds) |-> PartOf(ds[i], i)],
                 cfg |-> [Config EXCEPT !.full = full],
                 llm_ok |-> llm_ok]
    /\ ret = <<>>
    /\ call = "none"

CallBuildContext ==
    /\ call = "none"
    /\ arg.chronology_parts # <<>>
    /\ ret' = build_context_for_llm(arg.chronology_parts, EmptyCache, arg.cfg,
                                    arg.llm_ok)
    /\ call' = "build_context_for_llm"
    /\ UNCHANGED <<arg, pipeVars>>

NextContext == CallBuildContext

SpecContext == InitContext /\ [][NextContext]_vars

\* C29: with K = FULL_CHRONOLOGY_COUNT and n parts, the parts given in full
\* are the last min(K, n) parts, and the summary lines of the context are
\* those of the day summaries of the n - min(K, n) older parts.
C29_FullParts ==
    call = "build_context_for_llm" =>
       LET n == Len(arg.chronology_parts)
           k == Min(arg.cfg.full, n)
       IN  ret = ContextOf(OldSummaries(SubSeq(arg.chronology_parts, 1, n - k)),
                           SubSeq(arg.chronology_parts, n - k + 1, n),
                           EmptyCache, arg.cfg, arg.llm_ok)

\* The same for FULL_CHRONOLOGY_COUNT of at least 1
FullPartsFromOne == arg.cfg.full >= 1 => C29_FullParts

----------------------------------------------------------------------------
(* Specification of one call_llm invocation.  arg carries whether the      *)
(* payload has plugins, the loop variables attempt and delay, the waits    *)
(* slept and the outcomes of the requests sent; call is the position: a    *)
(* request is out ("requests.post"), its response is in ("response"), the  *)
(* invocation has raised or returned.                                      *)

max_retries == 5

\* The status codes a response may carry
LlmStatuses == {200, 400, 401, 429, 500, 503}

\* requests.post raised (connection error, timeout)
TransportFailure == [status_code |-> 0, body_ok |-> FALSE]

Response(status_code, body_ok) == [status_code |-> status_code, body_ok |-> body_ok]

\* Mutant of RetryAllowed: every error status is retried
RetryOnAnyError(status_code, attempt) ==
    status_code >= 400 /\ attempt < max_retries

\* `response.status_code == 429 and attempt < max_retries`
RetryAllowed(status_code, attempt) ==
    status_code = 429 /\ attempt < max_retries

InitCallLlm ==
    /\ Idle
    /\ \E plugins \in BOOLEAN :
          arg = [plugins |-> plugins, attempt |-> 0, delay |-> 5, slept |-> <<>>,
                 responses |-> <<>>]
    /\ ret = <<>>
    /\ call = "requests.post"

\* The request is answered with a status; a 200 body holds the content or
\* is malformed
PostReturns ==
    /\ call = "requests.post"
    /\ \E status_code \in LlmStatuses, body_ok \in BOOLEAN :
          /\ body_ok \/ status_code = 200
          /\ arg' = [arg EXCEPT !.responses = Append(@, Response(status_code, body_ok))]
    /\ call' = "response"
    /\ UNCHANGED <<ret, pipeVars>>

\* requests.post raises: the exception leaves call_llm
PostRaises ==
    /\ call = "requests.post"
    /\ arg' = [arg EXCEPT !.responses = Append(@, TransportFailure)]
    /\ call' = "raised"
    /\ UNCHANGED <<ret, pipeVars>>

\* The rate-limited branch: sleep, double the delay, next attempt
SleepAndRetry ==
    /\ call = "response"
    /\ RetryAllowed(arg.responses[Len(arg.responses)].status_code, arg.attempt)
    /\ arg' = [arg EXCEPT !.slept = Append(@, arg.delay), !.delay = 2 * @,
                          !.attempt = @ + 1]
    /\ call' = "requests.post"
    /\ UNCHANGED <<ret, pipeVars>>

\* response.raise_for_status() raises on an error status
RaiseForStatus ==
    /\ call = "response"
    /\ ~RetryAllowed(arg.responses[Len(arg.responses)].status_code, arg.attempt)
    /\ arg.responses[Len(arg.responses)].status_code >= 400
    /\ call' = "raised"
    /\ UNCHANGED <<arg, ret, pipeVars>>

\* The content of the body is returned, or reading a malformed body raises
ReadBody ==
    /\ call = "response"
    /\ ~RetryAllowed(arg.responses[Len(arg.responses)].status_code, arg.attempt)
    /\ arg.responses[Len(arg.responses)].status_code < 400
    /\ \/ /\ arg.responses[Len(arg.responses)].body_ok
          /\ \E t \in 1..MaxText : ret' = <<t>>
          /\ call' = "returned"
       \/ /\ ~arg.responses[Len(arg.responses)].body_ok
          /\ ret' = ret
          /\ call' = "raised"
    /\ UNCHANGED <<arg, pipeVars>>

NextCallLlm ==
    PostReturns \/ PostRaises \/ SleepAndRetry \/ RaiseForStatus \/ ReadBody

\* Every request is answered or fails within its timeout, and the code
\* between two requests runs on
SpecCallLlm == InitCallLlm /\ [][NextCallLlm]_vars /\ WF_vars(NextCallLlm)

Terminated == call \in {"raised", "returned"}

\* The waits of the retries, in order
StatedWaits == <<5, 10, 20, 40, 80>>

CallLlmBounds ==
    /\ arg.attempt + 1 <= 6
    /\ Len(arg.responses) <= 6
    /\ Len(arg.slept) <= 5
    /\ arg.slept = SubSeq(StatedWaits, 1, Len(arg.slept))
    /\ Len(arg.slept) = arg.attempt
    \* a request is sent again only after a rate-limited response
    /\ \A i \in 1..Len(arg.responses) - 1 : arg.responses[i].status_code = 429
    /\ call = "requests.post" =>
          \A i \in 1..Len(arg.responses) : arg.responses[i].status_code = 429
    \* a sixth rate-limited response, every other error status and a
    \* transport failure raise; only a 200 returns
    /\ (call = "response" /\ arg.responses[Len(arg.responses)].status_code # 429) =>
          ~ENABLED SleepAndRetry
    /\ (call = "response" /\ Len(arg.responses) = 6
           /\ arg.responses[6].status_code = 429) =>
          (ENABLED RaiseForStatus /\ ~ENABLED SleepAndRetry /\ ~ENABLED ReadBody)
    /\ call = "returned" => arg.responses[Len(arg.responses)].status_code = 200
    /\ (call = "raised" /\ arg.responses[Len(arg.responses)].status_code = 429) =>
          Len(arg.responses) = 6

\* C30: an invocation of call_llm sends at most 6 requests and ends; it
\* sends a request again only after a 429 response, at most 5 times, after
\* waits of 5, 10, 20, 40 and 80 seconds; the sixth 429 response raises, and
\* any other error status or a failure of the transport raises at once.
C30_BoundedRetries == [](CallLlmBounds) /\ <>Terminated

\* C30 witness: six rate-limited responses, five waits, and the call raised
C30_Witness ==
    /\ call = "raised"
    /\ Len(arg.responses) = 6
    /\ \A i \in 1..6 : arg.responses[i].status_code = 429
    /\ arg.slept = <<5, 10, 20, 40, 80>>

----------------------------------------------------------------------------
(* Properties of the persisted key sets *)

\* C36: in every state file the runs leave, whatever the sequence of runs,
\* failures, kills and resumed runs, no key is both pending and processed.
C36_PendingProcessedDisjoint ==
    Persisted.pending_tx_keys \cap Persisted.processed_tx_keys = {}

\* C36 witness: a second batch is under way: the checkpoint on disk holds the
\* keys of the first batch as processed and those of the second as pending
C36_Witness ==
    /\ pc = "loop"
    /\ disk.exists
    /\ Persisted.processed_tx_keys # {}
    /\ Persisted.pending_tx_keys # {}

----------------------------------------------------------------------------
(* Properties of a failed compression *)

\* C37: a group whose compression call failed is stored in the cache under
\* its content key with the uncompressed text.  Compressing a group whose
\* key holds such a text makes no LLM call and returns the stored text, and
\* no call of the compressor changes an entry the cache holds: the failed
\* compression is not tried again.
C37_FallbackIsCached ==
    /\ (call = "_compress_group" /\ ret.calls = 1 /\ ~arg.llm_ok) =>
          /\ GroupText(arg.group) \in DOMAIN ret.cache.groups
          /\ ret.cache.groups[GroupText(arg.group)]
                = <<FallbackMark>> \o GroupText(arg.group)
    /\ (/\ call = "_compress_group"
        /\ GroupText(arg.group) \in DOMAIN arg.cache.groups
        /\ arg.cache.groups[GroupText(arg.group)][1] = FallbackMark) =>
          /\ ret.calls = 0
          /\ ret.text = arg.cache.groups[GroupText(arg.group)]
    /\ call \in {"_compress_group", "_apply_hierarchical_compression", "again"} =>
          /\ SubDict(arg.cache.groups, ret.cache.groups)
          /\ SubDict(arg.cache.super_groups, ret.cache.super_groups)

\* C37 witness: the LLM answers now, and the group, whose earlier compression
\* failed, comes back from the cache as the fallback text without a call
C37_Witness ==
    /\ call = "_compress_group"
    /\ arg.llm_ok
    /\ ret.calls = 0
    /\ ret.text = <<FallbackMark>> \o GroupText(arg.group)

----------------------------------------------------------------------------
(* Coverage of the history by the compressed context *)

\* The summaries a flattened line was made from, in order: a mark opens the
\* text of a compressed line, a date range followed by a mark opens a group
\* line inside a super-group, anything else is the date range and the text of
\* one summary
RECURSIVE SummariesIn(_)
SummariesIn(s) ==
    IF s = <<>> THEN <<>>
    ELSE IF s[1] \in {CompressedMark, FallbackMark} THEN SummariesIn(Tail(s))
    ELSE IF Len(s) < 3 THEN <<s>>
    ELSE IF s[3] \in {CompressedMark, FallbackMark} THEN SummariesIn(SubSeq(s, 4, Len(s)))
    ELSE <<SubSeq(s, 1, 3)>> \o SummariesIn(SubSeq(s, 4, Len(s)))

\* How many of the summaries a flattened line was made from are v
OccurrenceCount(v, s) ==
    Cardinality({a \in 1..Len(SummariesIn(s)) : SummariesIn(s)[a] = v})

\* The lines whose date range holds day d
LinesOfDay(lines, d) == {i \in 1..Len(lines) : lines[i].lo <= d /\ d <= lines[i].hi}

\* C38: for both alignments the lines of the context, read in order, have
\* date ranges that follow each other from the first day of the history to
\* its last; each summary is held by exactly one line, and occurs exactly
\* once in the text that line was made from (the line itself, the input of
\* its group, or the inputs of the groups of its super-group).
C38_CoversInOrder ==
    call \in {"_apply_hierarchical_compression", "again"} =>
       /\ CoversHistory(ret.lines, arg.all_summaries)
       /\ \A d \in 1..Len(arg.all_summaries) :
             /\ Cardinality(LinesOfDay(ret.lines, d)) = 1
             /\ \A i \in LinesOfDay(ret.lines, d) :
                   OccurrenceCount(LineFlat(arg.all_summaries[d]),
                                   LineFlat(ret.lines[i])) = 1

\* C38 witness: seven summaries in groups of one, aligned from the end: a
\* super-group of two groups, a group left over in Tier 3, two groups of
\* Tier 2 and two recent summaries, in this order
C38_Witness ==
    /\ call = "_apply_hierarchical_compression"
    /\ arg.align_from_end
    /\ arg.cfg.group = 1 /\ arg.cfg.super = 2 /\ arg.cfg.weekly = 2
    /\ arg.cfg.daily = 2
    /\ Len(arg.all_summaries) = 7
    /\ Len(ret.lines) = 6
    /\ ret.lines[1].lo = 1 /\ ret.lines[1].hi = 2
    /\ IsGroupLine(ret.lines[2], arg.all_summaries, 1)
    /\ IsGroupLine(ret.lines[4], arg.all_summaries, 1)
    /\ IsVerbatim(ret.lines[5], arg.all_summaries)
    /\ IsVerbatim(ret.lines[6], arg.all_summaries)

----------------------------------------------------------------------------
(* Parts without date headers *)

\* The parts of the store that are not given in full
OldPartsOf(chronology_parts, context) ==
    SubSeq(chronology_parts, 1, Len(chronology_parts) - Len(context.recent))

\* C33: a part without a date header that is not given in full has a summary
\* line in the context whose text holds the whole part.
C33_HeaderlessPartSummarised ==
    call = "build_context_for_llm" =>
       \A p \in Range(OldPartsOf(arg.chronology_parts, ret.context)) :
          (p.secs = <<>> /\ p.body # <<>>) =>
             \E i \in 1..Len(ret.context.lines) :
                OccursIn(p.body, ret.context.lines[i].text)

\* What the code does with such a part: it contributes no line, and every
\* line of the context comes from the sections of the older parts
HeaderlessPartDropped ==
    call = "build_context_for_llm" =>
       /\ extract_day_metadata(PartOf({}, 1)) = <<>>
       /\ Len(ret.context.lines)
             <= SumSeq([i \in 1..Len(arg.chronology_parts) |->
                           Len(arg.chronology_parts[i].secs)])

\* C32: every item of extract_day_metadata carries an importance of 1..5, a
\* section without a well-formed importance line being given 3.
C32_MissingImportanceIsThree ==
    \A j \in 1..Len(arg.day_items) : arg.day_items[j].importance \in 1..5

\* What the code does: the item of such a section keeps importance None, and
\* the window selection never takes it as an anchor
MissingImportanceNeverAnchor ==
    call = "_select_summaries_by_tx_window"
       => \A j \in ret.anchors : arg.day_items[j].importance # NoImportance

----------------------------------------------------------------------------
(* Specification of the server's start of background runs for one wallet.  *)
(* Three requests can come in, each served by its own thread: the          *)
(* start-analysis endpoint, the bulk-refresh endpoint and the scheduled    *)
(* auto-refresh.  arg carries the position of each request, the dict entry *)
(* active_threads[wallet] (the request whose thread it holds), the threads *)
(* of background_refresh that are alive, the refresh status on disk and    *)
(* the status each request loaded.                                         *)

Requests == {"start_analysis", "start_bulk_refresh", "auto_refresh_all_wallets"}

InitServer ==
    /\ Idle
    /\ arg = [at |-> [r \in Requests |-> "none"],
              active_threads |-> "none",
              alive |-> {},
              status |-> "none",
              loaded |-> [r \in Requests |-> "none"]]
    /\ ret = <<>>
    /\ call = "server"

\* `existing_thread and existing_thread.is_alive()`
AlreadyRunning == arg.active_threads # "none" /\ arg.active_threads \in arg.alive

\* load_refresh_status at the start of the request
RequestLoadsStatus ==
    /\ \E r \in Requests :
          /\ arg.at[r] = "none"
          /\ arg' = [arg EXCEPT !.at[r] = "loaded", !.loaded[r] = arg.status]
    /\ UNCHANGED <<ret, call, pipeVars>>

\* The test of the thread of the wallet; the scheduled refresh also tests the
\* status it loaded
RequestChecks ==
    /\ \E r \in Requests :
          /\ arg.at[r] = "loaded"
          /\ arg' = [arg EXCEPT !.at[r] =
                        IF AlreadyRunning THEN "already_running"
                        ELSE IF r = "auto_refresh_all_wallets"
                                /\ arg.loaded[r] \in {"fetching", "analyzing"}
                        THEN "skipped"
                        ELSE "passed"]
    /\ UNCHANGED <<ret, call, pipeVars>>

\* save_refresh_status with the status "fetching"
RequestSavesStatus ==
    /\ \E r \in Requests :
          /\ arg.at[r] = "passed"
          /\ arg' = [arg EXCEPT !.at[r] = "saved", !.status = "fetching"]
    /\ UNCHANGED <<ret, call, pipeVars>>

\* thread.start(): a thread of background_refresh runs for the wallet
RequestStartsThread ==
    /\ \E r \in Requests :
          /\ arg.at[r] = "saved"
          /\ arg' = [arg EXCEPT !.at[r] = "thread_started", !.alive = @ \cup {r}]
    /\ UNCHANGED <<ret, call, pipeVars>>

\* active_threads[wallet_lower] = thread
RequestRegistersThread ==
    /\ \E r \in Requests :
          /\ arg.at[r] = "thread_started"
          /\ arg' = [arg EXCEPT !.at[r] = "started", !.active_threads = r]
    /\ UNCHANGED <<ret, call, pipeVars>>

\* background_refresh goes from fetching to the analysis
ThreadAnalyzes ==
    /\ arg.alive # {}
    /\ arg.status = "fetching"
    /\ arg' = [arg EXCEPT !.status = "analyzing"]
    /\ UNCHANGED <<ret, call, pipeVars>>

\* background_refresh returns: the status is "done" (or "error") and the
\* finally clause pops the wallet's entry, whichever thread it holds
ThreadExits ==
    /\ \E t \in arg.alive :
          arg' = [arg EXCEPT !.alive = @ \ {t}, !.status = "done",
                             !.active_threads = "none"]
    /\ UNCHANGED <<ret, call, pipeVars>>

NextServer ==
    \/ RequestLoadsStatus
    \/ RequestChecks
    \/ RequestSavesStatus
    \/ RequestStartsThread
    \/ RequestRegistersThread
    \/ ThreadAnalyzes
    \/ ThreadExits

SpecServer == InitServer /\ [][NextServer]_vars

\* C35: at most one thread of background_refresh is alive for the wallet.
C35_OneRunPerWallet == Cardinality(arg.alive) <= 1

\* A request that finds the registered thread alive starts none
StartRefusedWhenRegistered ==
    [][\A r \in Requests :
          (arg.at[r] = "loaded" /\ AlreadyRunning /\ arg'.at[r] # "loaded")
             => arg'.at[r] = "already_running"]_vars

----------------------------------------------------------------------------
(* Specification of the selection of a fresh batch over transaction dicts. *)
(* A dict carries tx_hash (the only native identifier of the fetched       *)
(* files; "" stands for an absent or empty one), the fields of the         *)
(* composite key that vary here (timestamp) and a field outside the key    *)
(* (recipient).  arg carries the transactions of the file, the state of    *)
(* the last run and the transactions sent to the LLM so far.               *)

MaxSelect == 4
MaxStamp == 2

Hashes == {"", "0xa"}
Recipients == {"alice", "bob"}

\* get_tx_key on the fields: the first truthy native identifier, else the
\* joined core fields (chain, tx_type, amount and symbol are the same for all)
KeyOfFields(fields) ==
    IF fields.tx_hash # "" THEN <<fields.tx_hash>>
    ELSE <<fields.timestamp, "eth", "transfer", 1, "ETH">>

TxDict(tx_hash, timestamp, recipient) ==
    LET fields == [tx_hash |-> tx_hash, timestamp |-> timestamp, recipient |-> recipient]
    IN  fields @@ [key |-> KeyOfFields(fields)]

FreshState(processed) ==
    [chunk_index |-> 0, chronology_parts |-> <<>>, processed_tx_keys |-> processed,
     pending_tx_keys |-> {}]

InitSelect ==
    /\ Idle
    /\ arg = [txs |-> <<>>, state |-> FreshState({}), sent |-> {}]
    /\ ret = <<>>
    /\ call = "none"

\* A fetch appends a transaction to the file, later ones after earlier ones
AddTxDict ==
    /\ call = "none"
    /\ Len(arg.txs) < MaxSelect
    /\ \E h \in Hashes, ts \in 1..MaxStamp, to \in Recipients :
          /\ \A i \in 1..Len(arg.txs) : arg.txs[i].timestamp <= ts
          /\ TxDict(h, ts, to) \notin {arg.txs[i] : i \in 1..Len(arg.txs)}
          /\ arg' = [arg EXCEPT !.txs = Append(@, TxDict(h, ts, to))]
    /\ UNCHANGED <<ret, call, pipeVars>>

\* new_txs of a run that is not resuming
CallSelectBatch ==
    /\ call = "none"
    /\ ret' = SelectBatch(arg.state, arg.txs)
    /\ call' = "select"
    /\ UNCHANGED <<arg, pipeVars>>

\* The run narrates the batch; its keys join processed_tx_keys
BatchCompletes ==
    /\ call = "select"
    /\ arg' = [arg EXCEPT !.state = FreshState(@.processed_tx_keys \cup KeysOf(ret)),
                          !.sent = @ \cup {ret[j] : j \in 1..Len(ret)}]
    /\ ret' = <<>>
    /\ call' = "none"
    /\ UNCHANGED pipeVars

NextSelect ==
    \/ AddTxDict
    \/ CallSelectBatch
    \/ BatchCompletes

SpecSelect == InitSelect /\ [][NextSelect]_vars

\* The positions of the file whose key is not processed
UnprocessedAt == {i \in 1..Len(arg.txs) : KeyOfFields(arg.txs[i]) \notin arg.state.processed_tx_keys}

\* C31: the fresh batch holds exactly the transactions whose key is not in
\* processedKeys, each position of the file counted: a transaction whose key
\* is processed is left out although it was never sent, and transactions with
\* equal unprocessed keys are all in the batch.
C31_SelectedIffKeyUnprocessed ==
    call = "select"
       => /\ Len(ret) = Cardinality(UnprocessedAt)
          /\ \A j \in 1..Len(ret) : KeyOfFields(ret[j]) \notin arg.state.processed_tx_keys
          /\ \A i \in UnprocessedAt : \E j \in 1..Len(ret) : ret[j] = arg.txs[i]
          /\ \A i \in 1..Len(arg.txs) :
                i \notin UnprocessedAt => \A j \in 1..Len(ret) : ret[j] # arg.txs[i]

C31_Witness ==
    /\ call = "select"
    /\ \E i \in 1..Len(arg.txs) :
          /\ arg.txs[i] \notin arg.sent
          /\ arg.txs[i].tx_hash = ""
          /\ KeyOfFields(arg.txs[i]) \in arg.state.processed_tx_keys
          /\ \A j \in 1..Len(ret) : ret[j] # arg.txs[i]
    /\ \E j, k \in 1..Len(ret) :
          j # k /\ ret[j] # ret[k] /\ KeyOfFields(ret[j]) = KeyOfFields(ret[k])

----------------------------------------------------------------------------
(* Specification of the state file under load_state and save_state.  arg   *)
(* is the file: whether it exists, whether its text is a complete JSON     *)
(* object, empty or a prefix of one, the keys of the object and of its     *)
(* compression_cache, the number of the checkpoint it holds, and whether   *)
(* the process was killed inside save_state.  ret is what the run holds:   *)
(* the keys of its state and the checkpoint it loaded.                     *)

MaxSaves == 3

CacheNamespaces == {"groups", "super_groups"}

FileOf(fields, cache_keys) ==
    [exists |-> TRUE, content |-> "complete", fields |-> fields,
     cache_keys |-> cache_keys, checkpoint |-> 0, killed_in_save |-> FALSE]

\* The files a run can find: none, one with every field, one that lacks one
\* field, one whose cache lacks one namespace, one with the calendar-based cache
FilesFound ==
    {[exists |-> FALSE, content |-> "none", fields |-> {}, cache_keys |-> {},
      checkpoint |-> 0, killed_in_save |-> FALSE]}
       \cup {FileOf(AllFields, CacheNamespaces)}
       \cup {FileOf(AllFields \ {x}, IF x = "compression_cache" THEN {} ELSE CacheNamespaces) :
                x \in AllFields}
       \cup {FileOf(AllFields, CacheNamespaces \ {n}) : n \in CacheNamespaces}
       \cup {FileOf(AllFields, {"weekly", "monthly"})}

NothingHeld == [outcome |-> "none", fields |-> {}, cache_keys |-> {}, checkpoint |-> 0]

\* load_state on the file: json.load, then the setdefault calls and the
\* migration of the cache
LoadStateFile(f) ==
    IF ~f.exists
    THEN [outcome |-> "loaded", fields |-> AllFields, cache_keys |-> CacheNamespaces,
          checkpoint |-> 0]
    ELSE IF f.content # "complete"
    THEN [outcome |-> "JSONDecodeError", fields |-> {}, cache_keys |-> {}, checkpoint |-> 0]
    ELSE [outcome |-> "loaded",
          checkpoint |-> f.checkpoint,
          fields |-> f.fields \cup {"processed_tx_keys", "pending_tx_keys",
                                   "compression_cache"},
          cache_keys |-> IF \/ "compression_cache" \notin f.fields
                            \/ "weekly" \in f.cache_keys
                            \/ "monthly" \in f.cache_keys
                            \/ f.cache_keys = {}
                         THEN CacheNamespaces
                         ELSE f.cache_keys \cup CacheNamespaces]

\* The reads of run_analysis_pipeline: state["chronology_parts"],
\* state["processed_tx_keys"], state["chunk_index"] and the two state.get
ReadState(state) ==
    IF {"chronology_parts", "processed_tx_keys", "chunk_index"} \subseteq state.fields
    THEN [state EXCEPT !.outcome = "running"]
    ELSE [state EXCEPT !.outcome = "KeyError"]

InitStateFile ==
    /\ Idle
    /\ arg \in FilesFound
    /\ ret = NothingHeld
    /\ call = "none"

CallLoadState ==
    /\ call = "none"
    /\ ret' = LoadStateFile(arg)
    /\ call' = "load_state"
    /\ UNCHANGED <<arg, pipeVars>>

RunReadsState ==
    /\ call = "load_state"
    /\ ret.outcome = "loaded"
    /\ ret' = ReadState(ret)
    /\ call' = "run"
    /\ UNCHANGED <<arg, pipeVars>>

\* open(state_path, "w"): the file exists and is empty
SaveOpens ==
    /\ call = "run"
    /\ ret.outcome = "running"
    /\ arg.checkpoint < MaxSaves
    /\ arg' = [arg EXCEPT !.exists = TRUE, !.content = "empty"]
    /\ call' = "save_state"
    /\ UNCHANGED <<ret, pipeVars>>

\* json.dump writes the object piece by piece; a full buffer reaches the file
SaveDumps ==
    /\ call = "save_state"
    /\ arg.content = "empty"
    /\ arg' = [arg EXCEPT !.content = "partial"]
    /\ UNCHANGED <<ret, call, pipeVars>>

\* The end of the `with` block: the object with its five keys is in the file
SaveCloses ==
    /\ call = "save_state"
    /\ arg' = [arg EXCEPT !.content = "complete", !.fields = AllFields,
                          !.cache_keys = CacheNamespaces,
                          !.checkpoint = @ + 1, !.killed_in_save = FALSE]
    /\ call' = "run"
    /\ UNCHANGED <<ret, pipeVars>>

\* The process ends: by a kill at any point, by the exception or by the
\* return of the run
ProcessEnds ==
    /\ call # "none"
    /\ arg' = [arg EXCEPT !.killed_in_save = (@ \/ call = "save_state")]
    /\ ret' = NothingHeld
    /\ call' = "none"
    /\ UNCHANGED pipeVars

NextStateFile ==
    \/ CallLoadState
    \/ RunReadsState
    \/ SaveOpens
    \/ SaveDumps
    \/ SaveCloses
    \/ ProcessEnds

SpecStateFile == InitStateFile /\ [][NextStateFile]_vars

\* C34: a run that loaded a complete state file goes on without raising, every
\* field of the state being present or defaulted.
C34_MissingFieldDefaulted ==
    call = "run" => ret.outcome = "running" /\ ret.fields = AllFields

\* What the code does: load_state gives a default to the two key lists, to the
\* cache and to each of its namespaces
LoadDefaultsKeysAndCache ==
    (call = "load_state" /\ ret.outcome = "loaded")
       => /\ {"processed_tx_keys", "pending_tx_keys", "compression_cache"} \subseteq ret.fields
          /\ ret.cache_keys = CacheNamespaces

\* C39: after a kill inside save_state the file is a complete checkpoint, and
\* the load_state that follows succeeds.
C39_KilledSaveLeavesCheckpoint ==
    arg.killed_in_save
       => /\ arg.content = "complete"
          /\ call = "load_state" => ret.outcome = "loaded"

\* What the code does: a save that is not interrupted leaves a complete file
UninterruptedSaveIsComplete ==
    (arg.exists /\ ~arg.killed_in_save /\ call # "save_state") => arg.content = "complete"

====
